---- MODULE Spec2Model ----
(***************************************************************************)
(* Model of the intent-to-query pipeline of the sales assistant:           *)
(*   app/ferramentas/ferramentas_sql.py  (period normalizer, text filter,  *)
(*                                        query builders)                  *)
(*   app/core/orquestrador.py            (customer resolver, handlers,     *)
(*                                        gerenciar_consulta_usuario)      *)
(*   app/agentes/agente_roteador.py      (obter_intencao)                  *)
(*   app/agentes/agente_sumarizador.py   (sumarizar_resultados)            *)
(*   app/db/consultas.py                 (customer lookup)                 *)
(*                                                                         *)
(* Python values are records [t, s, n]: t is the type tag, s the text of a *)
(* str as a sequence of atoms (an atom is one character or a word of       *)
(* letters), n the number of an int or the day ordinal of a datetime.      *)
(* Texts are written without diacritics.                                   *)
(***************************************************************************)
EXTENDS Integers, Sequences, FiniteSets, TLC

VARIABLES
    modo,        \* which entry point is exercised: "catalogo", "filtro", "manipulador", "orquestrador",
                 \* "sessao", "conversa", "limpeza", "envio", "reentrega",
                 \* "gerenciador", "tasks", "retry"
    hoje,        \* date.today() as a day ordinal (0 = Monday 2024-01-01)
    chamada,     \* the builder call under test (catalog entry point)
    retorno,     \* what the call under test (builder, adicionar_task) returned or raised
    pc,          \* position of the request inside gerenciar_consulta_usuario / the handler
    llm_saida,   \* what the classifier chain produced for this request
    intencao,    \* dados_intencao.intencao
    entidades,   \* dados_intencao.entidades
    esclarecimento, \* dados_intencao.mensagem_esclarecimento
    codigo_resolvido, \* result of _resolver_cliente (a value, Nulo before it returns)
    ret_manip,   \* result of the handler: a (sql, params) pair or a raised exception
    bd_chamadas, \* statements submitted to executar_consulta_selecao, in order
    busca_cliente, \* resultados_cliente: what the customer name lookup returned
    resultado_bd,  \* resultado: what executar_consulta_selecao returned for the intent's query
    llm_resumo,  \* what the summarizing chain produced
    etapas,      \* pipeline stages entered so far, in order
    resposta,    \* the text returned to the caller (a sequence of parts)
    propagou,    \* TRUE when an exception left gerenciar_consulta_usuario
    relogio,     \* datetime.now(), in minutes
    sessoes,     \* GerenciadorContexto.sessoes: a dict from user to SessaoUsuario
    registradas, \* history variable: per user, every text passed to adicionar_mensagem, in order
    tarefas,     \* the processar_mensagem coroutines in flight, one record per asyncio task
    recebidas,   \* number of inbound messages delivered to the webhook so far
    envios,      \* per inbound message, how many sendText requests carrying its reply reached WAHA
    gerenciador_tasks, \* GerenciadorTasks: max_tasks and the tracked set of tasks
    corrotinas,  \* state of each asyncio task handed to GerenciadorTasks
    waha,        \* ClienteWaha: its configuration, its session cache and the request under way
    aplicacao    \* the FastAPI application: the position of lifespan and what it started

\* the request pipeline of gerenciar_consulta_usuario and the query builders
vars_consulta == <<hoje, chamada, pc, llm_saida, intencao, entidades,
                   esclarecimento, codigo_resolvido, ret_manip, bd_chamadas, busca_cliente,
                   resultado_bd, llm_resumo, etapas, resposta, propagou>>

\* the conversation store, the WhatsApp message handlers and the task manager
vars_servico == <<relogio, sessoes, registradas, tarefas, recebidas, envios,
                  gerenciador_tasks, corrotinas>>

\* the transport client and the application around the service
vars_infra == <<waha, aplicacao>>

vars == <<modo, retorno, vars_consulta, vars_servico, vars_infra>>

---------------------------------------------------------------------------
(* Python values *)

Nulo == [t |-> "none", s |-> <<>>, n |-> 0]
Ausente == [t |-> "absent", s |-> <<>>, n |-> 0]
Str(s) == [t |-> "str", s |-> s, n |-> 0]
Inteiro(n) == [t |-> "int", s |-> <<>>, n |-> n]
DataHora(n) == [t |-> "datetime", s |-> <<>>, n |-> n]

\* `not v`
Falsy(v) ==
    \/ v.t = "none"
    \/ v.t = "str" /\ v.s = <<>>
    \/ v.t = "int" /\ v.n = 0

\* an entity map with no key set
EntidadesVazias ==
    [ k \in { "criterio_classificacao", "periodo_tempo", "limite", "nome_cliente",
              "codigo_cliente", "nome_produto", "id_pedido", "cidade", "marca", "posicao" }
      |-> Ausente ]

\* dict.get(k) and dict.get(k, padrao) on an entity map whose absent keys hold Ausente
Get(e, k) == IF e[k] = Ausente THEN Nulo ELSE e[k]
GetPadrao(e, k, padrao) == IF e[k] = Ausente THEN padrao ELSE e[k]

---------------------------------------------------------------------------
(* str methods, on sequences of atoms *)

Minuscula(a) ==
    CASE a = "HOJE" -> "hoje"
      [] a = "Hoje" -> "hoje"
      [] a = "SEMPRE" -> "sempre"
      [] a = "Sempre" -> "sempre"
      [] a = "ESTE" -> "este"
      [] a = "MES" -> "mes"
      [] a = "Liberado" -> "liberado"
      [] a = "MAIS" -> "mais"
      [] OTHER -> a

Maiuscula(a) ==
    CASE a = "hoje" -> "HOJE"
      [] a = "liberado" -> "LIBERADO"
      [] a = "Liberado" -> "LIBERADO"
      [] a = "x" -> "X"
      [] a = "b" -> "B"
      [] OTHER -> a

EhEspaco(a) == a \in {" ", "\t", "\n"}

StrLower(s) == [i \in 1..Len(s) |-> Minuscula(s[i])]
StrUpper(s) == [i \in 1..Len(s) |-> Maiuscula(s[i])]

\* s.replace(" ", "_"): only the space character, not every whitespace
StrReplaceEspaco(s) == [i \in 1..Len(s) |-> IF s[i] = " " THEN "_" ELSE s[i]]

StrStrip(s) ==
    LET cheios == {i \in 1..Len(s) : ~EhEspaco(s[i])}
        Min(S) == CHOOSE x \in S : \A y \in S : x <= y
        Max(S) == CHOOSE x \in S : \A y \in S : x >= y
    IN  IF cheios = {} THEN <<>> ELSE SubSeq(s, Min(cheios), Max(cheios))

\* s.split(): the maximal runs of non-whitespace atoms, in order
RECURSIVE StrSplitDe(_, _, _)
StrSplitDe(s, atual, feitos) ==
    IF s = <<>> THEN (IF atual = <<>> THEN feitos ELSE Append(feitos, atual))
    ELSE IF EhEspaco(Head(s))
         THEN StrSplitDe(Tail(s), <<>>, IF atual = <<>> THEN feitos ELSE Append(feitos, atual))
         ELSE StrSplitDe(Tail(s), Append(atual, Head(s)), feitos)
StrSplit(s) == StrSplitDe(s, <<>>, <<>>)

\* the characters of a text as one string
RECURSIVE Junta(_)
Junta(s) == IF s = <<>> THEN "" ELSE Head(s) \o Junta(Tail(s))

\* str(v) / f"{v}"
Texto(v) ==
    CASE v.t = "str" -> Junta(v.s)
      [] v.t = "int" -> ToString(v.n)
      [] v.t = "datetime" -> "datetime:" \o ToString(v.n)
      [] OTHER -> "None"

\* str(v) as a text value
ComoStr(v) == IF v.t = "str" THEN v ELSE Str(<<Texto(v)>>)

---------------------------------------------------------------------------
(* dicts of bound parameters, results and exceptions *)

\* one entry of a dict of bound parameters
P(nome, valor) == [nome |-> nome, valor |-> valor]

\* a.update(b): the entries of b replace those of a with the same key
DictUpdate(a, b) == {x \in a : ~\E y \in b : y.nome = x.nome} \cup b

Chaves(d) == {x.nome : x \in d}
Valor(d, nome) == (CHOOSE x \in d : x.nome = nome).valor

\* parts of a message: authored text, the echo of a caller's value, the text
\* of an exception raised by the runtime or a library, text produced by the LLM,
\* a value read from the database
Fixo(txt) == [k |-> "fixo", v |-> txt]
Eco(val) == [k |-> "entidade", v |-> Texto(val)]
TextoExcecao(txt) == [k |-> "excecao", v |-> txt]
TextoLLM(val) == [k |-> "llm", v |-> Texto(val)]
Dado(val) == [k |-> "dado", v |-> Texto(val)]

\* return (sql, params) / raise exc(msg)
Ok(sql, params) == [ok |-> TRUE, exc |-> "", msg |-> <<>>, sql |-> sql, params |-> params]
Levanta(exc, msg) == [ok |-> FALSE, exc |-> exc, msg |-> msg, sql |-> <<>>, params |-> {}]

\* no call made yet, nothing raised
SemRetorno == Levanta("", <<>>)

\* attribute access on a value that is not a str (x.strip(), x.lower())
SemAtributo(v, attr) ==
    Levanta("AttributeError",
            <<TextoExcecao("'" \o v.t \o "' object has no attribute '" \o attr \o "'")>>)

---------------------------------------------------------------------------
(* calendar: a date is (ano, mes, dia); day ordinals, 0 = Monday 2024-01-01 *)

Data(a, m, d) == [ano |-> a, mes |-> m, dia |-> d]

Bissexto(a) == a % 4 = 0 /\ (a % 100 /= 0 \/ a % 400 = 0)
DiasNoMes(a, m) ==
    IF m = 2 THEN (IF Bissexto(a) THEN 29 ELSE 28)
    ELSE IF m \in {4, 6, 9, 11} THEN 30 ELSE 31

\* days before 1 January of year a, counted from 1 January 2024
DiasAte(a) ==
    LET DiasAntesDoAno(y) == (y - 1) * 365 + (y - 1) \div 4 - (y - 1) \div 100 + (y - 1) \div 400
    IN  DiasAntesDoAno(a) - DiasAntesDoAno(2024)

RECURSIVE DiasAntesDoMes(_, _)
DiasAntesDoMes(a, m) == IF m = 1 THEN 0 ELSE DiasAntesDoMes(a, m - 1) + DiasNoMes(a, m - 1)

Ordinal(a, m, d) == DiasAte(a) + DiasAntesDoMes(a, m) + d - 1

\* d.replace(day=1)
PrimeiroDoMes(d) == Ordinal(d.ano, d.mes, 1)
\* d.replace(day=1) + relativedelta(months=1) and d.replace(day=1) - relativedelta(months=1)
MaisUmMes(d) ==
    IF d.mes = 12 THEN Ordinal(d.ano + 1, 1, 1) ELSE Ordinal(d.ano, d.mes + 1, 1)
MenosUmMes(d) ==
    IF d.mes = 1 THEN Ordinal(d.ano - 1, 12, 1) ELSE Ordinal(d.ano, d.mes - 1, 1)
\* d.weekday(): Monday is 0
Weekday(d) == Ordinal(d.ano, d.mes, d.dia) % 7

---------------------------------------------------------------------------
(* ferramentas_sql.py: period normalizer and text filter *)

\* the windows as they would be if "last month" ran up to the current day
JanelaPeriodoMesAteHoje(periodo_normalizado, dia) ==
    LET hoje_ord == Ordinal(dia.ano, dia.mes, dia.dia)
        inicio_semana == hoje_ord - Weekday(dia)
    IN  CASE periodo_normalizado = <<"hoje">> ->
               [inicio |-> hoje_ord, fim |-> hoje_ord + 1]
          [] periodo_normalizado \in {<<"este", "_", "mes">>, <<"mes", "_", "atual">>} ->
               [inicio |-> PrimeiroDoMes(dia), fim |-> MaisUmMes(dia)]
          [] periodo_normalizado \in {<<"ultimo", "_", "mes">>, <<"mes", "_", "passado">>} ->
               [inicio |-> MenosUmMes(dia), fim |-> hoje_ord]
          [] periodo_normalizado \in {<<"esta", "_", "semana">>, <<"semana", "_", "atual">>} ->
               [inicio |-> inicio_semana, fim |-> inicio_semana + 7]
          [] periodo_normalizado \in {<<"semana", "_", "passada">>, <<"ultima", "_", "semana">>} ->
               [inicio |-> inicio_semana - 7, fim |-> inicio_semana]
          [] periodo_normalizado = <<"ontem">> ->
               [inicio |-> hoje_ord - 1, fim |-> (hoje_ord - 1) + 1]
          [] OTHER -> [inicio |-> 0, fim |-> 0]

\* [start, end) of the period named by the normalized token, as day ordinals;
\* dia is datetime.now().date()
JanelaPeriodo(periodo_normalizado, dia) ==
    LET hoje_ord == Ordinal(dia.ano, dia.mes, dia.dia)
        inicio_semana == hoje_ord - Weekday(dia)
    IN  CASE periodo_normalizado = <<"hoje">> ->
               [inicio |-> hoje_ord, fim |-> hoje_ord + 1]
          [] periodo_normalizado \in {<<"este", "_", "mes">>, <<"mes", "_", "atual">>} ->
               [inicio |-> PrimeiroDoMes(dia), fim |-> MaisUmMes(dia)]
          [] periodo_normalizado \in {<<"ultimo", "_", "mes">>, <<"mes", "_", "passado">>} ->
               [inicio |-> MenosUmMes(dia), fim |-> PrimeiroDoMes(dia)]
          [] periodo_normalizado \in {<<"esta", "_", "semana">>, <<"semana", "_", "atual">>} ->
               [inicio |-> inicio_semana, fim |-> inicio_semana + 7]
          [] periodo_normalizado \in {<<"semana", "_", "passada">>, <<"ultima", "_", "semana">>} ->
               [inicio |-> inicio_semana - 7, fim |-> inicio_semana]
          [] periodo_normalizado = <<"ontem">> ->
               [inicio |-> hoje_ord - 1, fim |-> (hoje_ord - 1) + 1]
          [] OTHER -> [inicio |-> 0, fim |-> 0]

\* the tokens the if/elif chain has a branch for
PeriodosReconhecidos ==
    { <<"hoje">>, <<"ontem">>,
      <<"este", "_", "mes">>, <<"mes", "_", "atual">>,
      <<"ultimo", "_", "mes">>, <<"mes", "_", "passado">>,
      <<"esta", "_", "semana">>, <<"semana", "_", "atual">>,
      <<"semana", "_", "passada">>, <<"ultima", "_", "semana">> }

\* str(periodo_tempo).lower().replace(" ", "_").strip()
NormalizaPeriodo(s) == StrStrip(StrReplaceEspaco(StrLower(s)))

MsgPeriodoSempre ==
    <<Fixo("Periodo de tempo e obrigatorio e nao pode ser 'sempre'. Use: hoje, este_mes, ultimo_mes, etc.")>>

\* the normalizer with the silent default: a token it has no branch for becomes este_mes
_construir_clausula_data_com_padrao(periodo_tempo, coluna_data, dia) ==
    IF Falsy(periodo_tempo) THEN Levanta("ValueError", MsgPeriodoSempre)
    ELSE IF periodo_tempo.t /= "str" THEN SemAtributo(periodo_tempo, "lower")
    ELSE IF StrStrip(StrLower(periodo_tempo.s)) = <<"sempre">>
         THEN Levanta("ValueError", MsgPeriodoSempre)
    ELSE LET periodo_normalizado ==
                 IF NormalizaPeriodo(periodo_tempo.s) \in PeriodosReconhecidos
                 THEN NormalizaPeriodo(periodo_tempo.s) ELSE <<"este", "_", "mes">>
             janela == JanelaPeriodo(periodo_normalizado, dia)
         IN  Ok(<<coluna_data \o " >= :data_inicio AND " \o coluna_data \o " < :data_fim">>,
                { P("data_inicio", DataHora(janela.inicio)),
                  P("data_fim", DataHora(janela.fim)) })

_construir_clausula_data_otimizada(periodo_tempo, coluna_data, dia) ==
    IF Falsy(periodo_tempo) THEN Levanta("ValueError", MsgPeriodoSempre)
    ELSE IF periodo_tempo.t /= "str" THEN SemAtributo(periodo_tempo, "lower")
    ELSE IF StrStrip(StrLower(periodo_tempo.s)) = <<"sempre">>
         THEN Levanta("ValueError", MsgPeriodoSempre)
    ELSE LET periodo_normalizado == NormalizaPeriodo(periodo_tempo.s)
             janela == JanelaPeriodo(periodo_normalizado, dia)
         IN  IF periodo_normalizado \in PeriodosReconhecidos
             THEN Ok(<<coluna_data \o " >= :data_inicio AND " \o coluna_data \o " < :data_fim">>,
                     { P("data_inicio", DataHora(janela.inicio)),
                       P("data_fim", DataHora(janela.fim)) })
             ELSE Levanta("ValueError",
                          << Fixo("Periodo '"), Eco(periodo_tempo),
                             Fixo("' nao e valido. Use um dos seguintes: hoje, ontem, este_mes, mes_atual, ultimo_mes, mes_passado, esta_semana, semana_atual, ultima_semana, semana_passada") >>)

\* " AND ".join / " OR ".join
RECURSIVE JuntaCom(_, _)
JuntaCom(sep, itens) ==
    IF itens = <<>> THEN ""
    ELSE IF Len(itens) = 1 THEN itens[1]
    ELSE itens[1] \o sep \o JuntaCom(sep, Tail(itens))

\* f"{nome_param}_{i}_{j}" with enumerate's indices, which start at 0
KeyParam(nome_param, i, j) == nome_param \o "_" \o ToString(i - 1) \o "_" \o ToString(j - 1)

\* the filter as it would be if it wrote each token into the predicate
\* instead of binding it
_construir_filtro_texto_flexivel_interpolado(termo, campos, nome_param) ==
    LET palavras_chave == StrSplit(ComoStr(termo).s)
        clausulas_palavra_chave(i) ==
            [j \in 1..Len(palavras_chave) |->
                "LOWER(" \o campos[i] \o ") LIKE LOWER('%" \o Junta(palavras_chave[j]) \o "%')"]
        clausulas_campo ==
            [i \in 1..Len(campos) |-> "(" \o JuntaCom(" AND ", clausulas_palavra_chave(i)) \o ")"]
    IN  IF palavras_chave = <<>> THEN Ok(<<"">>, {})
        ELSE Ok(<<"(" \o JuntaCom(" OR ", clausulas_campo) \o ")">>, {})

_construir_filtro_texto_flexivel(termo, campos, nome_param) ==
    LET palavras_chave == StrSplit(ComoStr(termo).s)
        clausulas_palavra_chave(i) ==
            [j \in 1..Len(palavras_chave) |->
                "LOWER(" \o campos[i] \o ") LIKE LOWER(:" \o KeyParam(nome_param, i, j) \o ")"]
        clausulas_campo ==
            [i \in 1..Len(campos) |-> "(" \o JuntaCom(" AND ", clausulas_palavra_chave(i)) \o ")"]
    IN  IF palavras_chave = <<>> THEN Ok(<<"">>, {})
        ELSE Ok(<<"(" \o JuntaCom(" OR ", clausulas_campo) \o ")">>,
                { P(KeyParam(nome_param, i, j), Str(<<"%">> \o palavras_chave[j] \o <<"%">>)) :
                    i \in 1..Len(campos), j \in 1..Len(palavras_chave) })

---------------------------------------------------------------------------
(* ferramentas_sql.py: query builders.  A template is the sequence of the  *)
(* pieces the f-string is made of; every interpolated value is one piece.  *)

MsgPeriodoObrigatorio ==
    <<Fixo("Periodo de tempo e obrigatorio para esta consulta. Use: hoje, este_mes, ultimo_mes, etc.")>>

\* `not periodo_tempo or periodo_tempo.strip().lower() == "sempre"` of the four
\* period builders: the exception it ends with, or ok when the guard passes
GuardaPeriodo(periodo_tempo, msg) ==
    IF Falsy(periodo_tempo) THEN Levanta("ValueError", msg)
    ELSE IF periodo_tempo.t /= "str" THEN SemAtributo(periodo_tempo, "strip")
    ELSE IF StrLower(StrStrip(periodo_tempo.s)) = <<"sempre">> THEN Levanta("ValueError", msg)
    ELSE Ok(<<>>, {})

\* mapa_sinonimos.get(str(criterio).lower().replace(" ", "_")), then mapa_ordenacao.get
ClausulaOrdenacao(criterio_classificacao) ==
    LET chave == StrReplaceEspaco(StrLower(ComoStr(criterio_classificacao).s))
    IN  IF chave \in { <<"mais", "_", "vendidos">>, <<"maior", "_", "valor", "_", "vendas">>,
                       <<"top", "_", "vendas">> }
        THEN "TOTAL_VENDIDO DESC"
        ELSE IF chave = <<"menos", "_", "vendidos">> THEN "TOTAL_VENDIDO ASC"
        ELSE ""

construir_query_produtos_classificados(criterio_classificacao, periodo_tempo, limite, dia) ==
    LET guarda == GuardaPeriodo(periodo_tempo, MsgPeriodoObrigatorio)
        clausula_ordenacao == ClausulaOrdenacao(criterio_classificacao)
        data == _construir_clausula_data_otimizada(periodo_tempo, "C.DATA", dia)
    IN  IF ~guarda.ok THEN guarda
        ELSE IF clausula_ordenacao = ""
        THEN Levanta("ValueError", << Fixo("Criterio de classificacao invalido para vendas: "),
                                      Eco(criterio_classificacao) >>)
        ELSE IF ~data.ok THEN data
        ELSE Ok(<< "SELECT /*+ FIRST_ROWS(", Texto(limite), ") INDEX_COMBINE(P) */ P.CODPROD, P.DESCRICAO, P.PVENDA, VENDAS.TOTAL_VENDIDO FROM PCPRODUT P INNER JOIN ( SELECT /*+ INDEX(I IDX_PCPEDI_CODPROD) INDEX(C IDX_PCPEDC_DATA) */ I.CODPROD, COUNT(*) AS TOTAL_VENDIDO FROM PCPEDI I INNER JOIN PCPEDC C ON I.NUMPED = C.NUMPED WHERE ",
                   data.sql[1],
                   " GROUP BY I.CODPROD ) VENDAS ON P.CODPROD = VENDAS.CODPROD WHERE P.DTEXCLUSAO IS NULL ORDER BY ",
                   clausula_ordenacao,
                   " FETCH FIRST :limite ROWS ONLY" >>,
                DictUpdate({P("limite", limite)}, data.params))

construir_query_clientes_classificados(criterio_classificacao, periodo_tempo, limite, dia) ==
    LET guarda == GuardaPeriodo(periodo_tempo, MsgPeriodoObrigatorio)
        data == _construir_clausula_data_otimizada(periodo_tempo, "DATA", dia)
    IN  IF ~guarda.ok THEN guarda
        ELSE IF criterio_classificacao /= Str(<<"maior", "_", "valor", "_", "compras">>)
        THEN Levanta("ValueError", << Fixo("Criterio de classificacao de cliente invalido: "),
                                      Eco(criterio_classificacao) >>)
        ELSE IF ~data.ok THEN data
        ELSE Ok(<< "SELECT /*+ FIRST_ROWS(", Texto(limite), ") INDEX(C) */ C.CODCLI, C.CLIENTE, C.FANTASIA, GASTOS.VALOR_TOTAL_GASTO FROM PCCLIENT C INNER JOIN ( SELECT /*+ INDEX(PCPEDC IDX_PCPEDC_DATA) */ CODCLI, SUM(VLTOTAL) AS VALOR_TOTAL_GASTO FROM PCPEDC WHERE ",
                   data.sql[1],
                   " GROUP BY CODCLI ) GASTOS ON C.CODCLI = GASTOS.CODCLI ORDER BY GASTOS.VALOR_TOTAL_GASTO DESC FETCH FIRST :limite ROWS ONLY" >>,
                DictUpdate({P("limite", limite)}, data.params))

construir_query_detalhes_produto(nome_produto) ==
    LET filtro == _construir_filtro_texto_flexivel(nome_produto, <<"P.DESCRICAO">>, "produto")
    IN  Ok(<< "SELECT /*+ FIRST_ROWS(5) INDEX(P IDX_PCPRODUT_DESCRICAO) */ P.CODPROD, P.DESCRICAO, P.MARCA, P.PESOLIQ, P.PVENDA, F.FORNECEDOR FROM PCPRODUT P LEFT JOIN PCFORNEC F ON P.CODFORNEC = F.CODFORNEC WHERE P.DTEXCLUSAO IS NULL AND ",
               filtro.sql[1],
               " FETCH FIRST 5 ROWS ONLY" >>,
           filtro.params)

construir_query_produtos_por_marca(marca, limite) ==
    LET filtro == _construir_filtro_texto_flexivel(marca, <<"P.MARCA">>, "marca")
    IN  Ok(<< "SELECT /*+ FIRST_ROWS(:limite) INDEX(P IDX_PCPRODUT_MARCA) */ CODPROD, DESCRICAO, PVENDA FROM PCPRODUT P WHERE P.DTEXCLUSAO IS NULL AND ",
               filtro.sql[1],
               " FETCH FIRST :limite ROWS ONLY" >>,
           DictUpdate(filtro.params, {P("limite", limite)}))

construir_query_produtos_descontinuados(limite) ==
    Ok(<< "SELECT /*+ FIRST_ROWS(:limite) INDEX(PCPRODUT IDX_PCPRODUT_DTEXCLUSAO) */ CODPROD, DESCRICAO, DTEXCLUSAO FROM PCPRODUT WHERE DTEXCLUSAO IS NOT NULL ORDER BY DTEXCLUSAO DESC FETCH FIRST :limite ROWS ONLY" >>,
       {P("limite", limite)})

construir_query_limite_credito(codigo_cliente) ==
    Ok(<< "SELECT /*+ INDEX(PCCLIENT PK_PCCLIENT) */ CODCLI, CLIENTE, LIMCRED FROM PCCLIENT WHERE CODCLI = :codigo_cliente" >>,
       {P("codigo_cliente", codigo_cliente)})

construir_query_status_cliente(codigo_cliente) ==
    Ok(<< "SELECT /*+ INDEX(PCCLIENT PK_PCCLIENT) */ CODCLI, CLIENTE, BLOQUEIO, MOTIVOBLOQ, DTBLOQ FROM PCCLIENT WHERE CODCLI = :codigo_cliente" >>,
       {P("codigo_cliente", codigo_cliente)})

construir_query_contato_cliente(codigo_cliente) ==
    Ok(<< "SELECT /*+ INDEX(PCCLIENT PK_PCCLIENT) */ CODCLI, CLIENTE, TELENT, EMAIL FROM PCCLIENT WHERE CODCLI = :codigo_cliente" >>,
       {P("codigo_cliente", codigo_cliente)})

construir_query_endereco_cliente(codigo_cliente) ==
    Ok(<< "SELECT /*+ INDEX(PCCLIENT PK_PCCLIENT) */ CODCLI, CLIENTE, ENDERENT, NUMEROENT, BAIRROENT, MUNICENT, ESTENT, CEPENT FROM PCCLIENT WHERE CODCLI = :codigo_cliente" >>,
       {P("codigo_cliente", codigo_cliente)})

construir_query_clientes_por_cidade(cidade, limite) ==
    LET filtro == _construir_filtro_texto_flexivel(cidade, <<"MUNICENT">>, "cidade")
    IN  Ok(<< "SELECT /*+ FIRST_ROWS(:limite) INDEX(PCCLIENT IDX_PCCLIENT_MUNICENT) */ CODCLI, CLIENTE, FANTASIA, MUNICENT FROM PCCLIENT WHERE DTEXCLUSAO IS NULL AND ",
               filtro.sql[1],
               " FETCH FIRST :limite ROWS ONLY" >>,
           DictUpdate(filtro.params, {P("limite", limite)}))

construir_query_clientes_recentes(periodo_tempo, limite, dia) ==
    LET guarda == GuardaPeriodo(periodo_tempo,
                      <<Fixo("Periodo de tempo especifico e obrigatorio para esta consulta.")>>)
        data == _construir_clausula_data_otimizada(periodo_tempo, "DTCADASTRO", dia)
    IN  IF ~guarda.ok THEN guarda
        ELSE IF ~data.ok THEN data
        ELSE Ok(<< "SELECT /*+ FIRST_ROWS(:limite) INDEX(PCCLIENT IDX_PCCLIENT_DTCADASTRO) */ CODCLI, CLIENTE, DTCADASTRO FROM PCCLIENT WHERE DTEXCLUSAO IS NULL AND ",
                   data.sql[1],
                   " ORDER BY DTCADASTRO DESC FETCH FIRST :limite ROWS ONLY" >>,
                DictUpdate(data.params, {P("limite", limite)}))

construir_query_registros_vendas(codigo_cliente, periodo_tempo, limite, dia) ==
    LET guarda == GuardaPeriodo(periodo_tempo, MsgPeriodoObrigatorio)
        data == _construir_clausula_data_otimizada(periodo_tempo, "PC.DATA", dia)
    IN  IF ~guarda.ok THEN guarda
        ELSE IF ~data.ok THEN data
        ELSE Ok(<< "SELECT /*+ FIRST_ROWS(:limite) INDEX(PC IDX_PCPEDC_CODCLI_DATA) INDEX(C PK_PCCLIENT) */ C.CODCLI, C.CLIENTE, PC.NUMPED, PC.VLTOTAL, PC.POSICAO, PC.DATA FROM PCPEDC PC INNER JOIN PCCLIENT C ON C.CODCLI = PC.CODCLI WHERE PC.CODCLI = :codigo_cliente AND ",
                   data.sql[1],
                   " ORDER BY PC.DATA DESC FETCH FIRST :limite ROWS ONLY" >>,
                DictUpdate({P("codigo_cliente", codigo_cliente), P("limite", limite)},
                           data.params))

construir_query_itens_pedido(id_pedido) ==
    Ok(<< "SELECT /*+ INDEX(PI IDX_PCPEDI_NUMPED) INDEX(P PK_PCPRODUT) */ PI.CODPROD, P.DESCRICAO, PI.QT, PI.PVENDA, (PI.QT * PI.PVENDA) AS VLTOTAL_ITEM FROM PCPEDI PI INNER JOIN PCPRODUT P ON PI.CODPROD = P.CODPROD WHERE PI.NUMPED = :id_pedido ORDER BY P.DESCRICAO" >>,
       {P("id_pedido", id_pedido)})

construir_query_posicao_pedido(id_pedido) ==
    Ok(<< "SELECT /*+ INDEX(PCPEDC PK_PCPEDC) */ NUMPED, POSICAO, DATA FROM PCPEDC WHERE NUMPED = :id_pedido" >>,
       {P("id_pedido", id_pedido)})

construir_query_valor_pedido(id_pedido) ==
    Ok(<< "SELECT /*+ INDEX(PCPEDC PK_PCPEDC) */ NUMPED, VLTOTAL, DATA FROM PCPEDC WHERE NUMPED = :id_pedido" >>,
       {P("id_pedido", id_pedido)})

construir_query_data_entrega_pedido(id_pedido) ==
    Ok(<< "SELECT /*+ INDEX(PCPEDC PK_PCPEDC) */ NUMPED, DTENTREGA, DATA FROM PCPEDC WHERE NUMPED = :id_pedido" >>,
       {P("id_pedido", id_pedido)})

\* mapa_posicao.get(posicao.lower(), posicao.upper())
PosicaoCod(s) ==
    LET chave == StrLower(s)
    IN  CASE chave = <<"liberado">> -> <<"L">>
          [] chave = <<"bloqueado">> -> <<"B">>
          [] chave = <<"pendente">> -> <<"P">>
          [] chave = <<"faturado">> -> <<"F">>
          [] OTHER -> StrUpper(s)

construir_query_pedidos_por_posicao(posicao, limite) ==
    IF posicao.t /= "str" THEN SemAtributo(posicao, "lower")
    ELSE Ok(<< "SELECT /*+ FIRST_ROWS(:limite) INDEX(PCPEDC IDX_PCPEDC_POSICAO_DATA) */ NUMPED, CODCLI, VLTOTAL, DATA FROM PCPEDC WHERE POSICAO = :posicao ORDER BY DATA DESC FETCH FIRST :limite ROWS ONLY" >>,
            {P("posicao", Str(PosicaoCod(posicao.s))), P("limite", limite)})

---------------------------------------------------------------------------
(* orquestrador.py: customer resolver and intent handlers *)

EhDigito(a) == a \in {"0", "1", "2", "3", "4", "5", "6", "7", "8", "9"}
DigitoVal(a) ==
    CASE a = "0" -> 0 [] a = "1" -> 1 [] a = "2" -> 2 [] a = "3" -> 3 [] a = "4" -> 4
      [] a = "5" -> 5 [] a = "6" -> 6 [] a = "7" -> 7 [] a = "8" -> 8 [] OTHER -> 9

RECURSIVE NumeroDe(_)
NumeroDe(s) == IF s = <<>> THEN 0 ELSE NumeroDe(SubSeq(s, 1, Len(s) - 1)) * 10 + DigitoVal(s[Len(s)])

\* int(v): [ok, n] or the exception the conversion raises
PyInt(v) ==
    CASE v.t = "int" -> [ok |-> TRUE, n |-> v.n, erro |-> SemRetorno]
      [] v.t = "str" ->
           LET d == StrStrip(v.s)
           IN  IF d /= <<>> /\ \A i \in 1..Len(d) : EhDigito(d[i])
               THEN [ok |-> TRUE, n |-> NumeroDe(d), erro |-> SemRetorno]
               ELSE [ok |-> FALSE, n |-> 0,
                     erro |-> Levanta("ValueError",
                                 <<TextoExcecao("invalid literal for int() with base 10: '"
                                                \o Junta(v.s) \o "'")>>)]
      [] OTHER -> [ok |-> FALSE, n |-> 0,
                   erro |-> Levanta("TypeError",
                               <<TextoExcecao("int() argument must be a string, a bytes-like object or a real number")>>)]

\* consultas.py: the statement encontrar_clientes_por_nome_ou_codigo(nome=...) submits
ConsultaBuscaCliente(nome) ==
    [ tipo |-> "busca_cliente",
      sql |-> << "SELECT CODCLI, CLIENTE, FANTASIA FROM PCCLIENT WHERE ",
                 "(LOWER(CLIENTE) LIKE LOWER(:nome_cliente) OR LOWER(FANTASIA) LIKE LOWER(:nome_cliente))",
                 " FETCH FIRST 10 ROWS ONLY" >>,
      params |-> { P("nome_cliente", Str(<<"%">> \o ComoStr(nome).s \o <<"%">>)) } ]

MsgNaoEncontrado(nome_cliente) ==
    << Fixo("Nenhum cliente encontrado com o nome '"), Eco(nome_cliente), Fixo("'.") >>

RECURSIVE OpcoesClientes(_)
OpcoesClientes(cs) ==
    IF cs = <<>> THEN <<>>
    ELSE << Fixo("- Codigo: "), Dado(cs[1].codcli), Fixo(", Nome: "), Dado(cs[1].cliente) >>
         \o (IF Len(cs) > 1 THEN <<Fixo("\n")>> ELSE <<>>) \o OpcoesClientes(Tail(cs))

MsgAmbiguo(cs) ==
    <<Fixo("Encontrei mais de um cliente. Por favor, especifique qual deles voce deseja:\n")>>
    \o OpcoesClientes(cs)

MsgSemIdentificador ==
    <<Fixo("Para esta consulta, por favor, informe o nome ou o codigo do cliente.")>>

\* _resolver_cliente up to its await: the code returned, the exception raised,
\* or the name lookup it is about to wait for
_resolver_cliente(e) ==
    LET codigo_cliente == Get(e, "codigo_cliente")
        nome_cliente == Get(e, "nome_cliente")
        convertido == PyInt(codigo_cliente)
    IN  IF ~Falsy(codigo_cliente)
        THEN IF convertido.ok
             THEN [fase |-> "retorna", codigo |-> Inteiro(convertido.n), erro |-> SemRetorno]
             ELSE [fase |-> "levanta", codigo |-> Nulo, erro |-> convertido.erro]
        ELSE IF ~Falsy(nome_cliente)
        THEN [fase |-> "busca", codigo |-> Nulo, erro |-> SemRetorno]
        ELSE [fase |-> "levanta", codigo |-> Nulo,
              erro |-> Levanta("ValueError", MsgSemIdentificador)]

\* the resolver as it would be if several matches were settled by taking the first
_resolver_cliente_primeiro_candidato(e, resultados_cliente) ==
    LET nome_cliente == Get(e, "nome_cliente")
    IN  IF ~Falsy(resultados_cliente.erro) \/ resultados_cliente.dados = <<>>
        THEN [fase |-> "levanta", codigo |-> Nulo,
              erro |-> Levanta("ValueError", MsgNaoEncontrado(nome_cliente))]
        ELSE [fase |-> "retorna", codigo |-> resultados_cliente.dados[1].codcli,
              erro |-> SemRetorno]

\* _resolver_cliente after the lookup returned resultados_cliente
_resolver_cliente_apos_busca(e, resultados_cliente) ==
    LET nome_cliente == Get(e, "nome_cliente")
    IN  IF ~Falsy(resultados_cliente.erro) \/ resultados_cliente.dados = <<>>
        THEN [fase |-> "levanta", codigo |-> Nulo,
              erro |-> Levanta("ValueError", MsgNaoEncontrado(nome_cliente))]
        ELSE IF Len(resultados_cliente.dados) > 1
        THEN [fase |-> "levanta", codigo |-> Nulo,
              erro |-> Levanta("ValueError", MsgAmbiguo(resultados_cliente.dados))]
        ELSE [fase |-> "retorna", codigo |-> resultados_cliente.dados[1].codcli,
              erro |-> SemRetorno]

IntencoesCliente ==
    { "listar_registros_vendas", "consultar_limite_credito", "verificar_status_cliente",
      "buscar_dados_contato_cliente", "buscar_endereco_cliente" }

\* the five customer-scoped handlers, after _resolver_cliente returned codigo_cliente
ManipuladorComCliente(i, e, codigo_cliente, dia) ==
    CASE i = "listar_registros_vendas" ->
           construir_query_registros_vendas(
               codigo_cliente, GetPadrao(e, "periodo_tempo", Str(<<"este", "_", "mes">>)),
               GetPadrao(e, "limite", Inteiro(50)), dia)
      [] i = "consultar_limite_credito" -> construir_query_limite_credito(codigo_cliente)
      [] i = "verificar_status_cliente" -> construir_query_status_cliente(codigo_cliente)
      [] i = "buscar_dados_contato_cliente" -> construir_query_contato_cliente(codigo_cliente)
      [] OTHER -> construir_query_endereco_cliente(codigo_cliente)

\* the three order handlers that take id_pedido
ManipuladorPedido(i, e) ==
    LET id_pedido == Get(e, "id_pedido")
        convertido == PyInt(id_pedido)
    IN  IF Falsy(id_pedido)
        THEN Levanta("ValueError", <<Fixo("Por favor, informe o numero do pedido.")>>)
        ELSE IF ~convertido.ok THEN convertido.erro
        ELSE CASE i = "obter_itens_pedido" -> construir_query_itens_pedido(Inteiro(convertido.n))
               [] i = "verificar_posicao_pedido" ->
                    construir_query_posicao_pedido(Inteiro(convertido.n))
               [] i = "consultar_valor_pedido" ->
                    construir_query_valor_pedido(Inteiro(convertido.n))
               [] OTHER -> construir_query_data_entrega_pedido(Inteiro(convertido.n))

_manipular_produtos_classificados(e, dia) ==
    LET criterio == Get(e, "criterio_classificacao")
        periodo == IF Falsy(Get(e, "periodo_tempo")) THEN Str(<<"este", "_", "mes">>)
                   ELSE Get(e, "periodo_tempo")
    IN  IF Falsy(criterio)
        THEN Levanta("ValueError",
                     <<Fixo("Criterio de classificacao nao especificado (ex: mais vendidos).")>>)
        ELSE construir_query_produtos_classificados(
                 criterio, periodo, GetPadrao(e, "limite", Inteiro(10)), dia)

_manipular_clientes_classificados(e, dia) ==
    LET criterio == Get(e, "criterio_classificacao")
        periodo == IF Falsy(Get(e, "periodo_tempo")) THEN Str(<<"este", "_", "mes">>)
                   ELSE Get(e, "periodo_tempo")
    IN  IF Falsy(criterio)
        THEN Levanta("ValueError",
                     <<Fixo("Criterio de classificacao para clientes nao especificado.")>>)
        ELSE construir_query_clientes_classificados(
                 criterio, periodo, GetPadrao(e, "limite", Inteiro(10)), dia)

_manipular_detalhes_produto(e) ==
    IF Falsy(Get(e, "nome_produto"))
    THEN Levanta("ValueError", <<Fixo("Por favor, especifique o nome do produto.")>>)
    ELSE construir_query_detalhes_produto(Get(e, "nome_produto"))

_manipular_clientes_por_cidade(e) ==
    IF Falsy(Get(e, "cidade"))
    THEN Levanta("ValueError", <<Fixo("Por favor, especifique a cidade.")>>)
    ELSE construir_query_clientes_por_cidade(Get(e, "cidade"), GetPadrao(e, "limite", Inteiro(20)))

_manipular_clientes_recentes(e, dia) ==
    LET periodo == Get(e, "periodo_tempo")
    IN  IF Falsy(periodo) \/ periodo = Str(<<"sempre">>)
        THEN Levanta("ValueError",
                     <<Fixo("Por favor, especifique um periodo de tempo especifico (ex: 'este mes', 'hoje').")>>)
        ELSE construir_query_clientes_recentes(periodo, GetPadrao(e, "limite", Inteiro(20)), dia)

_manipular_produtos_por_marca(e) ==
    IF Falsy(Get(e, "marca"))
    THEN Levanta("ValueError", <<Fixo("Por favor, especifique a marca do produto.")>>)
    ELSE construir_query_produtos_por_marca(Get(e, "marca"), GetPadrao(e, "limite", Inteiro(20)))

_manipular_produtos_descontinuados(e) ==
    construir_query_produtos_descontinuados(GetPadrao(e, "limite", Inteiro(20)))

_manipular_pedidos_por_posicao(e) ==
    IF Falsy(Get(e, "posicao"))
    THEN Levanta("ValueError",
                 <<Fixo("Por favor, especifique a posicao dos pedidos (ex: 'bloqueado').")>>)
    ELSE construir_query_pedidos_por_posicao(Get(e, "posicao"),
                                             GetPadrao(e, "limite", Inteiro(20)))

\* the registry as it would be with one schema tag left without a handler
MAPEAMENTO_INTENCOES_incompleto ==
    { "buscar_produtos_classificados", "listar_registros_vendas", "buscar_detalhes_produto",
      "obter_itens_pedido", "consultar_limite_credito", "verificar_status_cliente",
      "buscar_dados_contato_cliente", "buscar_endereco_cliente", "listar_clientes_por_cidade",
      "listar_clientes_recentes", "listar_produtos_por_marca",
      "verificar_posicao_pedido", "consultar_valor_pedido",
      "consultar_data_entrega_pedido", "listar_pedidos_por_posicao",
      "buscar_clientes_classificados" }

\* the keys of MAPEAMENTO_INTENCOES
MAPEAMENTO_INTENCOES ==
    { "buscar_produtos_classificados", "listar_registros_vendas", "buscar_detalhes_produto",
      "obter_itens_pedido", "consultar_limite_credito", "verificar_status_cliente",
      "buscar_dados_contato_cliente", "buscar_endereco_cliente", "listar_clientes_por_cidade",
      "listar_clientes_recentes", "listar_produtos_por_marca",
      "listar_produtos_descontinuados", "verificar_posicao_pedido", "consultar_valor_pedido",
      "consultar_data_entrega_pedido", "listar_pedidos_por_posicao",
      "buscar_clientes_classificados" }

\* MAPEAMENTO_INTENCOES[i](e) for the handlers that do not resolve a customer
ManipuladorSemCliente(i, e, dia) ==
    CASE i = "buscar_produtos_classificados" -> _manipular_produtos_classificados(e, dia)
      [] i = "buscar_clientes_classificados" -> _manipular_clientes_classificados(e, dia)
      [] i = "buscar_detalhes_produto" -> _manipular_detalhes_produto(e)
      [] i = "listar_clientes_por_cidade" -> _manipular_clientes_por_cidade(e)
      [] i = "listar_clientes_recentes" -> _manipular_clientes_recentes(e, dia)
      [] i = "listar_produtos_por_marca" -> _manipular_produtos_por_marca(e)
      [] i = "listar_produtos_descontinuados" -> _manipular_produtos_descontinuados(e)
      [] i = "listar_pedidos_por_posicao" -> _manipular_pedidos_por_posicao(e)
      [] OTHER -> ManipuladorPedido(i, e)

---------------------------------------------------------------------------
(* agente_roteador.py: obter_intencao *)

\* the Literal of intent tags
TipoIntencao ==
    { "buscar_produtos_classificados", "listar_registros_vendas", "obter_itens_pedido",
      "consultar_limite_credito", "verificar_status_cliente", "buscar_dados_contato_cliente",
      "buscar_endereco_cliente", "listar_clientes_por_cidade", "listar_clientes_recentes",
      "buscar_clientes_classificados",
      "buscar_detalhes_produto", "listar_produtos_por_marca", "listar_produtos_descontinuados",
      "verificar_posicao_pedido", "consultar_valor_pedido", "consultar_data_entrega_pedido",
      "listar_pedidos_por_posicao",
      "necessita_esclarecimento", "desconhecido" }

INTENCOES_QUE_PRECISAM_PERIODO ==
    { "buscar_produtos_classificados", "buscar_clientes_classificados",
      "listar_registros_vendas" }

IntencaoConsulta(i, e, m) == [intencao |-> i, entidades |-> e, mensagem_esclarecimento |-> m]

\* mensagens_esclarecimento[i]
MensagemEsclarecimentoPeriodo(i) ==
    CASE i = "buscar_produtos_classificados" ->
           Str(<<"Para consultar os produtos mais vendidos, preciso saber o periodo. Voce quer ver os dados de hoje, este mes, ultimo mes ou outro periodo especifico?">>)
      [] i = "buscar_clientes_classificados" ->
           Str(<<"Para consultar os clientes que mais gastaram, preciso saber o periodo. Voce quer ver os dados de hoje, este mes, ultimo mes ou outro periodo especifico?">>)
      [] OTHER ->
           Str(<<"Para consultar o historico de vendas, preciso saber o periodo. Voce quer ver os dados de hoje, este mes, ultimo mes ou outro periodo especifico?">>)

\* IntencaoConsulta(**resultado_dict) accepts the dict: the tag is one of the
\* closed set and the message is a str or None
DictValido(saida) ==
    /\ saida.intencao \in TipoIntencao
    /\ saida.mensagem.t \in {"none", "str"}

\* obter_intencao as it would be if the dict of the chain were not validated
\* against the schema
obter_intencao_sem_validacao(saida) ==
    IF saida.tipo = "levanta"
    THEN IntencaoConsulta("desconhecido", EntidadesVazias, Nulo)
    ELSE LET periodo == Get(saida.entidades, "periodo_tempo")
         IN  IF /\ saida.intencao \in INTENCOES_QUE_PRECISAM_PERIODO
                /\ (Falsy(periodo) \/ periodo = Str(<<"sempre">>))
             THEN IntencaoConsulta("necessita_esclarecimento", EntidadesVazias,
                                   MensagemEsclarecimentoPeriodo(saida.intencao))
             ELSE IntencaoConsulta(saida.intencao, saida.entidades, saida.mensagem)

obter_intencao(saida) ==
    IF saida.tipo = "levanta" \/ ~DictValido(saida)
    THEN IntencaoConsulta("desconhecido", EntidadesVazias, Nulo)
    ELSE LET periodo == Get(saida.entidades, "periodo_tempo")
         IN  IF /\ saida.intencao \in INTENCOES_QUE_PRECISAM_PERIODO
                /\ (Falsy(periodo) \/ periodo = Str(<<"sempre">>))
             THEN IntencaoConsulta("necessita_esclarecimento", EntidadesVazias,
                                   MensagemEsclarecimentoPeriodo(saida.intencao))
             ELSE IntencaoConsulta(saida.intencao, saida.entidades, saida.mensagem)

---------------------------------------------------------------------------
(* agente_sumarizador.py: sumarizar_resultados *)

\* number of characters of an atom
Tamanho(a) ==
    CASE a = "Encontrei" -> 9
      [] a = "Posso" -> 5
      [] a = "posso" -> 5
      [] a = "ajudar" -> 6
      [] a = "pedidos" -> 7
      [] OTHER -> 1

RECURSIVE Comprimento(_)
Comprimento(s) == IF s = <<>> THEN 0 ELSE Tamanho(Head(s)) + Comprimento(Tail(s))

MinusculaTexto(a) == IF a = "Posso" THEN "posso" ELSE Minuscula(a)

\* any(sugestao in resposta.lower() for sugestao in ['posso', 'gostaria', 'deseja'])
TemSugestao(s) ==
    \E i \in 1..Len(s) : MinusculaTexto(s[i]) \in {"posso", "gostaria", "deseja"}

TemColuna(linhas, col) ==
    \E i \in 1..Len(linhas) : \E j \in 1..Len(linhas[i]) : linhas[i][j].chave = col

RECURSIVE CamposRegistro(_)
CamposRegistro(registro) ==
    IF registro = <<>> THEN <<>>
    ELSE << Fixo("\n* **"), [k |-> "coluna", v |-> registro[1].chave], Fixo("**: "),
            Dado(registro[1].valor) >> \o CamposRegistro(Tail(registro))

CamposPrincipais(registro) ==
    SelectSeq(registro, LAMBDA c : c.chave \in { "codprod", "descricao", "cliente", "codcli",
                                                 "numped", "pvenda", "vltotal" })

RECURSIVE JuntaCampos(_)
JuntaCampos(cs) ==
    IF cs = <<>> THEN <<>>
    ELSE << [k |-> "coluna", v |-> cs[1].chave], Fixo(": "), Dado(cs[1].valor) >>
         \o (IF Len(cs) > 1 THEN <<Fixo(" | ")>> ELSE <<>>) \o JuntaCampos(Tail(cs))

RECURSIVE ResultadosFallback(_, _)
ResultadosFallback(linhas, i) ==
    IF i > Len(linhas) \/ i > 5 THEN <<>>
    ELSE << Fixo("**Resultado " \o ToString(i) \o ":**\n") >>
         \o (IF CamposPrincipais(linhas[i]) = <<>> THEN <<>>
             ELSE JuntaCampos(SubSeq(CamposPrincipais(linhas[i]), 1,
                                     IF Len(CamposPrincipais(linhas[i])) < 3
                                     THEN Len(CamposPrincipais(linhas[i])) ELSE 3))
                  \o <<Fixo("\n\n")>>)
         \o ResultadosFallback(linhas, i + 1)

_gerar_resposta_fallback(linhas) ==
    IF Len(linhas) = 1
    THEN <<Fixo("Encontrei 1 resultado para sua consulta:\n")>> \o CamposRegistro(linhas[1])
    ELSE << Fixo("Encontrei "), Fixo(ToString(Len(linhas))),
            Fixo(" resultados para sua consulta.\n\n") >>
         \o ResultadosFallback(linhas, 1)
         \o (IF Len(linhas) > 5
             THEN <<Fixo("... e mais " \o ToString(Len(linhas) - 5) \o " resultados.\n")>>
             ELSE <<>>)

_pos_processar_resposta(resultado, linhas) ==
    <<TextoLLM(Str(resultado))>>
    \o (IF Len(linhas) > 10
        THEN <<Fixo("\n\nResumo: Total de " \o ToString(Len(linhas)) \o " registros encontrados.")>>
        ELSE <<>>)
    \o (IF TemSugestao(resultado) THEN <<>>
        ELSE IF TemColuna(linhas, "codprod")
        THEN <<Fixo("\n\nProximos passos: Posso mostrar mais detalhes sobre algum produto especifico ou ajudar com outra consulta.")>>
        ELSE IF TemColuna(linhas, "codcli")
        THEN <<Fixo("\n\nProximos passos: Posso verificar pedidos, limite de credito ou outras informacoes desses clientes.")>>
        ELSE IF TemColuna(linhas, "numped")
        THEN <<Fixo("\n\nProximos passos: Posso mostrar os itens de algum pedido ou verificar outros periodos.")>>
        ELSE <<>>)

MsgSemDadosSumarizador ==
    <<Fixo("Desculpe, nao encontrei nenhum resultado para a sua consulta no banco de dados. Isso pode acontecer se: ... Tente ajustar os parametros da sua busca ou me pergunte de outra forma.")>>

\* the summarizer as it would be if a failure of the chain escaped to the
\* caller, whose `except Exception` answers with the internal-error text
sumarizar_resultados_sem_fallback(saida, linhas) ==
    IF linhas = <<>> THEN MsgSemDadosSumarizador
    ELSE IF saida.tipo = "levanta" THEN
        <<Fixo("Desculpe, ocorreu um erro interno ao processar sua solicitacao. Nossa equipe foi notificada e estamos trabalhando para resolver.")>>
    ELSE LET resultado == StrStrip(saida.texto.s)
         IN  _pos_processar_resposta(resultado, linhas)

\* saida is what the summarizing chain did: it raised, or it returned a text
sumarizar_resultados(saida, linhas) ==
    IF linhas = <<>> THEN MsgSemDadosSumarizador
    ELSE IF saida.tipo = "levanta" THEN _gerar_resposta_fallback(linhas)
    ELSE LET resultado == StrStrip(saida.texto.s)
         IN  IF resultado = <<>> \/ Comprimento(StrStrip(resultado)) < 10
             THEN _gerar_resposta_fallback(linhas)
             ELSE _pos_processar_resposta(resultado, linhas)

---------------------------------------------------------------------------
(* inputs *)

\* a requested limit far above any a handler asks for
LimiteEnorme == 1000000

\* current dates: a Monday that opens a year, a leap day, a Sunday that closes a
\* month, a year's last day
DiasHoje == { Data(2024, 1, 1), Data(2024, 2, 29), Data(2024, 3, 31), Data(2025, 12, 31) }

PeriodosCanonicos == { Str(p) : p \in PeriodosReconhecidos }

\* period tokens as a caller may write them
PeriodosVariantes ==
    { Str(<<"HOJE">>), Str(<<"Hoje">>), Str(<<"este", " ", "mes">>), Str(<<"ESTE", "_", "MES">>),
      Str(<<" ", "hoje">>), Str(<<"hoje", " ">>), Str(<<"\t", "hoje", "\n">>) }

\* no period at all, "always", and tokens outside the canonical set
PeriodosInvalidos ==
    { Nulo, Str(<<>>), Str(<<"sempre">>), Str(<<"SEMPRE">>), Str(<<" ", "Sempre", " ">>),
      Str(<<" ">>), Str(<<"ano", "_", "passado">>), Str(<<"ultimos", "_", "30", "_", "dias">>),
      Str(<<"hoje", "_", "e", "_", "ontem">>) }

PeriodosTeste == PeriodosCanonicos \cup PeriodosVariantes \cup PeriodosInvalidos \cup {Inteiro(7)}

CriteriosTeste ==
    { Nulo, Str(<<"mais", "_", "vendidos">>), Str(<<"MAIS", " ", "vendidos">>),
      Str(<<"menos", "_", "vendidos">>), Str(<<"maior", "_", "valor", "_", "compras">>),
      Str(<<"mais", "_", "caros">>) }

LimitesTeste ==
    { Nulo, Inteiro(0), Inteiro(-1), Inteiro(5), Inteiro(7), Inteiro(LimiteEnorme),
      Str(<<"5", ")", " ", "*/", " ", "1">>) }

TermosTeste ==
    { Str(<<"parafuso">>), Str(<<"porca">>), Str(<<"parafuso", " ", "sextavado">>),
      Str(<<" ", "parafuso", "\t", "m8", " ">>), Str(<<" ">>), Str(<<>>),
      Str(<<"x", "'", ")", " ", "OR", " ", "1=1">>) }

PosicoesTeste ==
    { Str(<<"bloqueado">>), Str(<<"Liberado">>), Str(<<"faturado">>), Str(<<"x">>),
      Str(<<"b">>), Inteiro(3) }

CodigosTeste == { Inteiro(123), Inteiro(456), Inteiro(0) }

ConstrutoresComPeriodo ==
    { "construir_query_produtos_classificados", "construir_query_clientes_classificados",
      "construir_query_registros_vendas", "construir_query_clientes_recentes" }

ConstrutoresComLimite ==
    ConstrutoresComPeriodo \cup
    { "construir_query_produtos_por_marca", "construir_query_produtos_descontinuados",
      "construir_query_clientes_por_cidade", "construir_query_pedidos_por_posicao" }

Chamar(c, cri, per, lim, ter, cod) ==
    [construtor |-> c, criterio |-> cri, periodo |-> per, limite |-> lim, termo |-> ter,
     codigo |-> cod]

\* the builder calls exercised: every builder, with the arguments it takes
Chamadas ==
    { Chamar(c, cri, per, lim, Nulo, Nulo) :
        c \in { "construir_query_produtos_classificados",
                "construir_query_clientes_classificados" },
        cri \in CriteriosTeste, per \in PeriodosTeste, lim \in LimitesTeste }
    \cup { Chamar("construir_query_registros_vendas", Nulo, per, lim, Nulo, cod) :
             per \in PeriodosTeste, lim \in LimitesTeste, cod \in CodigosTeste }
    \cup { Chamar("construir_query_clientes_recentes", Nulo, per, lim, Nulo, Nulo) :
             per \in PeriodosTeste, lim \in LimitesTeste }
    \cup { Chamar("_construir_clausula_data_otimizada", Nulo, per, Nulo, Nulo, Nulo) :
             per \in PeriodosTeste }
    \cup { Chamar(c, Nulo, Nulo, lim, ter, Nulo) :
             c \in { "construir_query_produtos_por_marca",
                     "construir_query_clientes_por_cidade" },
             lim \in LimitesTeste, ter \in TermosTeste }
    \cup { Chamar("construir_query_pedidos_por_posicao", Nulo, Nulo, lim, ter, Nulo) :
             lim \in LimitesTeste, ter \in PosicoesTeste }
    \cup { Chamar("construir_query_produtos_descontinuados", Nulo, Nulo, lim, Nulo, Nulo) :
             lim \in LimitesTeste }
    \cup { Chamar("construir_query_detalhes_produto", Nulo, Nulo, Nulo, ter, Nulo) :
             ter \in TermosTeste }
    \cup { Chamar(c, Nulo, Nulo, Nulo, Nulo, cod) :
             c \in { "construir_query_limite_credito", "construir_query_status_cliente",
                     "construir_query_contato_cliente", "construir_query_endereco_cliente",
                     "construir_query_itens_pedido", "construir_query_posicao_pedido",
                     "construir_query_valor_pedido", "construir_query_data_entrega_pedido" },
             cod \in CodigosTeste }

\* the call c made on day dia
Construir(c, dia) ==
    CASE c.construtor = "construir_query_produtos_classificados" ->
           construir_query_produtos_classificados(c.criterio, c.periodo, c.limite, dia)
      [] c.construtor = "construir_query_clientes_classificados" ->
           construir_query_clientes_classificados(c.criterio, c.periodo, c.limite, dia)
      [] c.construtor = "construir_query_registros_vendas" ->
           construir_query_registros_vendas(c.codigo, c.periodo, c.limite, dia)
      [] c.construtor = "construir_query_clientes_recentes" ->
           construir_query_clientes_recentes(c.periodo, c.limite, dia)
      [] c.construtor = "_construir_clausula_data_otimizada" ->
           _construir_clausula_data_otimizada(c.periodo, "DATA", dia)
      [] c.construtor = "construir_query_produtos_por_marca" ->
           construir_query_produtos_por_marca(c.termo, c.limite)
      [] c.construtor = "construir_query_clientes_por_cidade" ->
           construir_query_clientes_por_cidade(c.termo, c.limite)
      [] c.construtor = "construir_query_pedidos_por_posicao" ->
           construir_query_pedidos_por_posicao(c.termo, c.limite)
      [] c.construtor = "construir_query_produtos_descontinuados" ->
           construir_query_produtos_descontinuados(c.limite)
      [] c.construtor = "construir_query_detalhes_produto" ->
           construir_query_detalhes_produto(c.termo)
      [] c.construtor = "construir_query_limite_credito" ->
           construir_query_limite_credito(c.codigo)
      [] c.construtor = "construir_query_status_cliente" ->
           construir_query_status_cliente(c.codigo)
      [] c.construtor = "construir_query_contato_cliente" ->
           construir_query_contato_cliente(c.codigo)
      [] c.construtor = "construir_query_endereco_cliente" ->
           construir_query_endereco_cliente(c.codigo)
      [] c.construtor = "construir_query_itens_pedido" ->
           construir_query_itens_pedido(c.codigo)
      [] c.construtor = "construir_query_posicao_pedido" ->
           construir_query_posicao_pedido(c.codigo)
      [] c.construtor = "construir_query_valor_pedido" ->
           construir_query_valor_pedido(c.codigo)
      [] OTHER -> construir_query_data_entrega_pedido(c.codigo)

---------------------------------------------------------------------------
(* The conversation store: app/core/gerenciador_contexto.py.  A dict is a  *)
(* function whose DOMAIN is the set of its keys; times are minutes.        *)

\* gerenciador_contexto = GerenciadorContexto(timeout_minutos=30, max_mensagens=10)
timeout_minutos == 30
max_mensagens == 10

Usuarios == {"u1", "u2"}

Maior(a, b) == IF a > b THEN a ELSE b

\* lista[inicio:]; a negative inicio counts from the end of the list
FatiaDesde(lista, inicio) ==
    LET n == Len(lista)
        i == IF inicio < 0
             THEN Maior(n + inicio, 0)
             ELSE (IF inicio > n THEN n ELSE inicio)
    IN  IF i >= n THEN <<>> ELSE SubSeq(lista, i + 1, n)

\* lista[:fim] for fim >= 0
FatiaAte(lista, fim) ==
    IF Len(lista) <= fim THEN lista ELSE SubSeq(lista, 1, fim)

\* lista[:-1]
SemUltimo(lista) ==
    IF Len(lista) <= 1 THEN <<>> ELSE SubSeq(lista, 1, Len(lista) - 1)

MensagemContexto(texto, timestamp) ==
    [texto |-> texto, timestamp |-> timestamp, tipo |-> "text", resposta_bot |-> Nulo]

\* SessaoUsuario.__init__
SessaoUsuario(timeout, maximo, agora) ==
    [mensagens |-> <<>>, ultima_atividade |-> agora, timeout_minutos |-> timeout,
     max_mensagens |-> maximo, total_mensagens_recebidas |-> 0]

\* SessaoUsuario.adicionar_mensagem
adicionar_mensagem(sessao, texto, agora) ==
    LET mensagens == Append(sessao.mensagens, MensagemContexto(texto, agora))
        mensagens_para_remover == Len(mensagens) - Maior(3, sessao.max_mensagens)
    IN  [sessao EXCEPT
            !.mensagens = IF Len(mensagens) > sessao.max_mensagens
                          THEN FatiaDesde(mensagens, mensagens_para_remover)
                          ELSE mensagens,
            !.ultima_atividade = agora,
            !.total_mensagens_recebidas = @ + 1]

\* SessaoUsuario.adicionar_resposta_bot
adicionar_resposta_bot(sessao, resposta_bot) ==
    IF sessao.mensagens /= <<>>
    THEN [sessao EXCEPT !.mensagens[Len(sessao.mensagens)].resposta_bot = resposta_bot]
    ELSE sessao

esta_expirada_no_limite(sessao, agora) ==
    agora - sessao.ultima_atividade >= sessao.timeout_minutos

\* SessaoUsuario.esta_expirada
esta_expirada(sessao, agora) ==
    agora - sessao.ultima_atividade > sessao.timeout_minutos

\* one line of the rendered context, "[HH:MM] quem: texto"
LinhaContexto(timestamp, quem, texto) ==
    [hora |-> timestamp % 1440, quem |-> quem, texto |-> texto]

\* the loop of obter_contexto_formatado over the turns it renders
RECURSIVE LinhasContexto(_)
LinhasContexto(mensagens) ==
    IF mensagens = <<>>
    THEN <<>>
    ELSE LET msg == Head(mensagens)
         IN  <<LinhaContexto(msg.timestamp, "Usuario", <<msg.texto>>)>>
             \o (IF ~Falsy(msg.resposta_bot)
                 THEN <<LinhaContexto(msg.timestamp, "Bot",
                                      FatiaAte(msg.resposta_bot.s, 100) \o <<"...">>)>>
                 ELSE <<>>)
             \o LinhasContexto(Tail(mensagens))

obter_contexto_formatado_com_atual(sessao) ==
    IF sessao.mensagens = <<>>
    THEN <<>>
    ELSE LinhasContexto(FatiaDesde(sessao.mensagens, -5))

\* SessaoUsuario.obter_contexto_formatado: the lines between the fixed header
\* "Historico da conversa:" and the fixed footer "Pergunta atual: "; no line
\* at all is the empty string
obter_contexto_formatado(sessao) ==
    IF sessao.mensagens = <<>>
    THEN <<>>
    ELSE LinhasContexto(SemUltimo(FatiaDesde(sessao.mensagens, -5)))

\* adicionar_mensagem as it would be if the message went into every session
GerenciadorContexto_adicionar_mensagem_em_todas(ss, usuario_id, texto, agora) ==
    LET sessao(u) == IF u \in DOMAIN ss
                     THEN ss[u]
                     ELSE SessaoUsuario(timeout_minutos, max_mensagens, agora)
    IN  [u \in DOMAIN ss \cup {usuario_id} |-> adicionar_mensagem(sessao(u), texto, agora)]

\* adicionar_mensagem as it would be if an expired session were replaced by a
\* new one before the message is added
GerenciadorContexto_adicionar_mensagem_renovando(ss, usuario_id, texto, agora) ==
    LET sessao == IF usuario_id \in DOMAIN ss /\ ~esta_expirada(ss[usuario_id], agora)
                  THEN ss[usuario_id]
                  ELSE SessaoUsuario(timeout_minutos, max_mensagens, agora)
    IN  [u \in DOMAIN ss \cup {usuario_id} |->
            IF u = usuario_id THEN adicionar_mensagem(sessao, texto, agora) ELSE ss[u]]

\* GerenciadorContexto.adicionar_mensagem
GerenciadorContexto_adicionar_mensagem(ss, usuario_id, texto, agora) ==
    LET sessao == IF usuario_id \in DOMAIN ss
                  THEN ss[usuario_id]
                  ELSE SessaoUsuario(timeout_minutos, max_mensagens, agora)
    IN  [u \in DOMAIN ss \cup {usuario_id} |->
            IF u = usuario_id THEN adicionar_mensagem(sessao, texto, agora) ELSE ss[u]]

\* the reply is dropped instead of stored
GerenciadorContexto_adicionar_resposta_bot_sem_efeito(ss, usuario_id, resposta_bot) == ss

\* GerenciadorContexto.adicionar_resposta_bot
GerenciadorContexto_adicionar_resposta_bot(ss, usuario_id, resposta_bot) ==
    IF usuario_id \in DOMAIN ss
    THEN [ss EXCEPT ![usuario_id] = adicionar_resposta_bot(@, resposta_bot)]
    ELSE ss

\* GerenciadorContexto.obter_contexto
obter_contexto(ss, usuario_id) ==
    IF usuario_id \notin DOMAIN ss THEN <<>> ELSE obter_contexto_formatado(ss[usuario_id])

\* GerenciadorContexto._limpar_sessoes_expiradas
_limpar_sessoes_expiradas(ss, agora) ==
    [u \in { v \in DOMAIN ss : ~esta_expirada(ss[v], agora) } |-> ss[u]]

\* encerrar_sessao as it would be if it left the session in place
encerrar_sessao_sem_remover(ss, usuario_id) ==
    [sessoes |-> ss, retorno |-> usuario_id \in DOMAIN ss]

\* GerenciadorContexto.encerrar_sessao: the sessions left, and what it returns
encerrar_sessao(ss, usuario_id) ==
    [sessoes |-> [u \in DOMAIN ss \ {usuario_id} |-> ss[u]],
     retorno |-> usuario_id \in DOMAIN ss]

\* GerenciadorContexto.obter_estatisticas_sessao: None without a session,
\* else the dict of SessaoUsuario.obter_estatisticas, of which the two
\* message counts are kept
obter_estatisticas_sessao(ss, usuario_id) ==
    IF usuario_id \in DOMAIN ss
    THEN [existe |-> TRUE,
          total_mensagens |-> Len(ss[usuario_id].mensagens),
          mensagens_recebidas |-> ss[usuario_id].total_mensagens_recebidas]
    ELSE [existe |-> FALSE, total_mensagens |-> 0, mensagens_recebidas |-> 0]

\* GerenciadorContexto.listar_sessoes_ativas
listar_sessoes_ativas(ss) == DOMAIN ss

\* no key at all
DictVazio == [u \in {} |-> u]

---------------------------------------------------------------------------
(* Background work: GerenciadorTasks in app/main.py and the coroutines of  *)
(* ProcessadorWhatsApp.processar_mensagem                                  *)

\* gerenciador_tasks = GerenciadorTasks(max_tasks=100)
max_tasks == 100

\* the slots of the event loop that run processar_mensagem side by side
Tarefas == {1, 2}

\* a task slot that runs no coroutine
TarefaLivre ==
    [pc |-> "livre", chat_id |-> "", message_id |-> 0, texto |-> "", contexto |-> <<>>,
     resposta |-> Nulo, tentativa |-> 0]

\* the transport client and the application, not exercised
InfraParada ==
    /\ waha = <<>>
    /\ aplicacao = <<>>

\* the variables of the conversation service, idle
ServicoParado ==
    /\ relogio = 0
    /\ sessoes = DictVazio
    /\ registradas = [u \in Usuarios |-> <<>>]
    /\ tarefas = [t \in Tarefas |-> TarefaLivre]
    /\ recebidas = 0
    /\ envios = <<>>
    /\ gerenciador_tasks = [max_tasks |-> max_tasks, tasks |-> {}]
    /\ corrotinas = <<>>

---------------------------------------------------------------------------
(* the catalog entry point: one builder call *)

SemChamada == Chamar("", Nulo, Nulo, Nulo, Nulo, Nulo)
SemSaidaLLM == [tipo |-> "", intencao |-> "", entidades |-> EntidadesVazias, mensagem |-> Nulo]
SemResultado == [erro |-> Nulo, dados |-> <<>>]
SemResumo == [tipo |-> "", texto |-> Nulo]

\* the variables of the request pipeline, idle
PipelineParado ==
    /\ llm_saida = SemSaidaLLM
    /\ intencao = ""
    /\ entidades = EntidadesVazias
    /\ esclarecimento = Nulo
    /\ codigo_resolvido = Nulo
    /\ ret_manip = SemRetorno
    /\ bd_chamadas = <<>>
    /\ busca_cliente = SemResultado
    /\ resultado_bd = SemResultado
    /\ llm_resumo = SemResumo
    /\ etapas = <<>>
    /\ resposta = <<>>
    /\ propagou = FALSE

InitCatalogo ==
    /\ ServicoParado
    /\ InfraParada
    /\ modo = "catalogo"
    /\ hoje \in DiasHoje
    /\ chamada \in Chamadas
    /\ retorno = SemRetorno
    /\ pc = "chamando"
    /\ PipelineParado

ChamarConstrutor ==
    /\ UNCHANGED <<vars_servico, vars_infra>>
    /\ modo = "catalogo"
    /\ pc = "chamando"
    /\ retorno' = Construir(chamada, hoje)
    /\ pc' = "retornou"
    /\ UNCHANGED <<modo, hoje, chamada, llm_saida, intencao, entidades, esclarecimento,
                   codigo_resolvido, ret_manip, bd_chamadas, busca_cliente, resultado_bd,
                   llm_resumo, etapas, resposta, propagou>>

NextCatalogo == ChamarConstrutor

SpecCatalogo == InitCatalogo /\ [][NextCatalogo]_vars

---------------------------------------------------------------------------
(* the text filter called directly, with any number of columns *)

TermosFiltro ==
    TermosTeste
    \cup { Nulo, Inteiro(7), Str(<<"a", " ", "a">>), Str(<<"LIKE">>),
           Str(<<"a", "\n", "b", " ", "c">>) }

CamposFiltro == { <<"P.MARCA">>, <<"CLIENTE", "FANTASIA">>, <<"A", "B", "C">> }

NomesParamFiltro == { "marca", "cliente" }

InitFiltro ==
    /\ ServicoParado
    /\ InfraParada
    /\ modo = "filtro"
    /\ hoje = Data(2024, 1, 1)
    /\ chamada \in { [construtor |-> "_construir_filtro_texto_flexivel", termo |-> ter,
                      campos |-> cam, nome_param |-> nom] :
                       ter \in TermosFiltro, cam \in CamposFiltro, nom \in NomesParamFiltro }
    /\ retorno = SemRetorno
    /\ pc = "chamando"
    /\ PipelineParado

\* _construir_filtro_texto_flexivel(termo, campos, nome_param)
ChamarFiltro ==
    /\ UNCHANGED <<vars_servico, vars_infra>>
    /\ modo = "filtro"
    /\ pc = "chamando"
    /\ retorno' = _construir_filtro_texto_flexivel(chamada.termo, chamada.campos,
                                                   chamada.nome_param)
    /\ pc' = "retornou"
    /\ UNCHANGED <<modo, hoje, chamada, llm_saida, intencao, entidades, esclarecimento,
                   codigo_resolvido, ret_manip, bd_chamadas, busca_cliente, resultado_bd,
                   llm_resumo, etapas, resposta, propagou>>

SpecFiltro == InitFiltro /\ [][ChamarFiltro]_vars

---------------------------------------------------------------------------
(* inputs of the request pipeline *)

\* rows a lookup may return at most (the statement fetches the first 10)
MaxCandidatos == 3
\* rows the intent's query may return at most
MaxLinhas == 2

PeriodosOrq ==
    { Ausente, Nulo, Str(<<>>), Str(<<"sempre">>), Str(<<"SEMPRE">>),
      Str(<<"este", "_", "mes">>), Str(<<"hoje">>), Str(<<"ano", "_", "passado">>),
      Inteiro(7) }

LimitesOrq == { Ausente, Inteiro(5), Inteiro(-1), Inteiro(LimiteEnorme) }

CriteriosOrq ==
    { Ausente, Str(<<"mais", "_", "vendidos">>), Str(<<"maior", "_", "valor", "_", "compras">>),
      Str(<<"mais", "_", "caros">>) }

\* (codigo_cliente, nome_cliente) as the classifier may extract them
ClientesOrq ==
    { <<Ausente, Ausente>>, <<Inteiro(123), Ausente>>, <<Inteiro(123), Str(<<"joao">>)>>,
      <<Inteiro(0), Str(<<"joao">>)>>, <<Inteiro(0), Ausente>>,
      <<Str(<<"4", "2">>), Ausente>>, <<Str(<<"abc">>), Ausente>>,
      <<Ausente, Str(<<"joao">>)>>, <<Nulo, Str(<<"maria", " ", "silva">>)>> }

PedidosOrq ==
    { Ausente, Inteiro(0), Inteiro(98765), Str(<<"9", "8", "7">>), Str(<<"abc">>) }

TermosOrq ==
    { Ausente, Str(<<>>), Str(<<" ">>), Str(<<"parafuso">>),
      Str(<<"parafuso", " ", "sextavado">>) }

PosicoesOrq == { Ausente, Str(<<"bloqueado">>), Str(<<"Liberado">>), Str(<<"x">>), Inteiro(3) }

\* the entity maps the classifier may deliver with intent i
EntidadesDe(i) ==
    CASE i \in {"buscar_produtos_classificados", "buscar_clientes_classificados"} ->
           { [EntidadesVazias EXCEPT !.criterio_classificacao = cri, !.periodo_tempo = per,
                                     !.limite = lim] :
               cri \in CriteriosOrq, per \in PeriodosOrq, lim \in LimitesOrq }
      [] i = "listar_registros_vendas" ->
           { [EntidadesVazias EXCEPT !.codigo_cliente = cli[1], !.nome_cliente = cli[2],
                                     !.periodo_tempo = per, !.limite = lim] :
               cli \in ClientesOrq, per \in PeriodosOrq, lim \in {Ausente, Inteiro(LimiteEnorme)} }
      [] i \in IntencoesCliente ->
           { [EntidadesVazias EXCEPT !.codigo_cliente = cli[1], !.nome_cliente = cli[2]] :
               cli \in ClientesOrq }
      [] i = "buscar_detalhes_produto" ->
           { [EntidadesVazias EXCEPT !.nome_produto = ter] : ter \in TermosOrq }
      [] i = "listar_clientes_por_cidade" ->
           { [EntidadesVazias EXCEPT !.cidade = ter, !.limite = lim] :
               ter \in TermosOrq, lim \in LimitesOrq }
      [] i = "listar_produtos_por_marca" ->
           { [EntidadesVazias EXCEPT !.marca = ter, !.limite = lim] :
               ter \in TermosOrq, lim \in LimitesOrq }
      [] i = "listar_clientes_recentes" ->
           { [EntidadesVazias EXCEPT !.periodo_tempo = per, !.limite = lim] :
               per \in PeriodosOrq, lim \in LimitesOrq }
      [] i = "listar_produtos_descontinuados" ->
           { [EntidadesVazias EXCEPT !.limite = lim] : lim \in LimitesOrq }
      [] i = "listar_pedidos_por_posicao" ->
           { [EntidadesVazias EXCEPT !.posicao = pos, !.limite = lim] :
               pos \in PosicoesOrq, lim \in LimitesOrq }
      [] i \in { "obter_itens_pedido", "verificar_posicao_pedido", "consultar_valor_pedido",
                 "consultar_data_entrega_pedido" } ->
           { [EntidadesVazias EXCEPT !.id_pedido = ped] : ped \in PedidosOrq }
      [] OTHER ->
           { EntidadesVazias, [EntidadesVazias EXCEPT !.limite = Inteiro(5)] }

SaidaLLM(tipo, i, e, m) == [tipo |-> tipo, intencao |-> i, entidades |-> e, mensagem |-> m]

\* what the classifying chain may do: raise, return a dict the schema rejects
\* (no tag, a tag outside the closed set, a message that is not text), or
\* return a dict the schema accepts
SaidasLLM ==
    { SaidaLLM("levanta", "", EntidadesVazias, Nulo),
      SaidaLLM("dict", "", EntidadesVazias, Nulo),
      SaidaLLM("dict", "cancelar_pedido", EntidadesVazias, Nulo),
      SaidaLLM("dict", "listar_produtos_descontinuados", EntidadesVazias, Inteiro(1)) }
    \cup UNION { { SaidaLLM("dict", i, e, Nulo) : e \in EntidadesDe(i) } :
                    i \in TipoIntencao \ {"necessita_esclarecimento"} }
    \cup { SaidaLLM("dict", "necessita_esclarecimento", e, m) :
             e \in EntidadesDe("necessita_esclarecimento"),
             m \in { Nulo, Str(<<>>), Str(<<" ">>), Str(<<"Qual cliente?">>) } }

Cliente(n) ==
    [ codcli |-> Inteiro(1000 + n),
      cliente |-> Str(<<"JOAO", " ", ToString(n)>>) ]

\* what the customer lookup may return: an error, or up to MaxCandidatos rows
ResultadosBusca ==
    { [erro |-> Str(<<"Erro na operacao de banco de dados: ORA-12541">>), dados |-> <<>>] }
    \cup { [erro |-> Nulo, dados |-> [k \in 1..n |-> Cliente(k)]] : n \in 0..MaxCandidatos }

\* the columns of the rows of intent i's query, lower-cased as consultas.py does
ColunasDe(i) ==
    CASE i = "buscar_produtos_classificados" -> <<"codprod", "descricao", "pvenda", "total_vendido">>
      [] i = "buscar_clientes_classificados" -> <<"codcli", "cliente", "fantasia", "valor_total_gasto">>
      [] i = "listar_registros_vendas" -> <<"codcli", "cliente", "numped", "vltotal", "posicao", "data">>
      [] i = "buscar_detalhes_produto" -> <<"codprod", "descricao", "marca", "pesoliq", "pvenda", "fornecedor">>
      [] i = "listar_produtos_por_marca" -> <<"codprod", "descricao", "pvenda">>
      [] i = "listar_produtos_descontinuados" -> <<"codprod", "descricao", "dtexclusao">>
      [] i = "consultar_limite_credito" -> <<"codcli", "cliente", "limcred">>
      [] i = "verificar_status_cliente" -> <<"codcli", "cliente", "bloqueio", "motivobloq", "dtbloq">>
      [] i = "buscar_dados_contato_cliente" -> <<"codcli", "cliente", "telent", "email">>
      [] i = "buscar_endereco_cliente" -> <<"codcli", "cliente", "enderent", "municent">>
      [] i = "listar_clientes_por_cidade" -> <<"codcli", "cliente", "fantasia", "municent">>
      [] i = "listar_clientes_recentes" -> <<"codcli", "cliente", "dtcadastro">>
      [] i = "obter_itens_pedido" -> <<"codprod", "descricao", "qt", "pvenda", "vltotal_item">>
      [] i = "verificar_posicao_pedido" -> <<"numped", "posicao", "data">>
      [] i = "consultar_valor_pedido" -> <<"numped", "vltotal", "data">>
      [] i = "consultar_data_entrega_pedido" -> <<"numped", "dtentrega", "data">>
      [] OTHER -> <<"numped", "codcli", "vltotal", "data">>

Linha(i, n) == [c \in 1..Len(ColunasDe(i)) |-> [chave |-> ColunasDe(i)[c], valor |-> Inteiro(n)]]

\* what executar_consulta_selecao may return for intent i's query
ResultadosConsulta(i) ==
    { [erro |-> Str(<<"Erro na operacao de banco de dados: ORA-00942">>), dados |-> <<>>] }
    \cup { [erro |-> Nulo, dados |-> [k \in 1..n |-> Linha(i, k)]] : n \in 0..MaxLinhas }

\* what the summarizing chain may do: raise, or return a text (empty, blank,
\* 9 characters, 9 characters inside blanks, 11 characters, 12 with a suggestion)
SaidasSumarizador ==
    { [tipo |-> "levanta", texto |-> Nulo] }
    \cup { [tipo |-> "texto", texto |-> Str(s)] :
             s \in { <<>>, <<" ", "\n">>, <<"Encontrei">>, <<" ", "Encontrei", " ">>,
                     <<"Encontrei", " ", "3">>, <<"Posso", " ", "ajudar">> } }

---------------------------------------------------------------------------
(* orquestrador.py: gerenciar_consulta_usuario *)

MsgDesconhecido ==
    <<Fixo("Desculpe, nao entendi sua solicitacao. Voce pode perguntar sobre: Produtos mais vendidos, Informacoes de clientes, Status de pedidos, Limites de credito")>>
MsgEsclarecimentoPadrao == <<Fixo("Por favor, forneca mais detalhes para sua consulta.")>>
MsgSemManipulador(i) ==
    << Fixo("Desculpe, ainda nao consigo processar este tipo de consulta: "),
       [k |-> "intencao", v |-> i] >>
MsgErroBD ==
    <<Fixo("Desculpe, ocorreu um erro ao consultar a base de dados. Por favor, tente novamente.")>>
MsgNadaEncontrado ==
    <<Fixo("Nao encontrei nenhum resultado para sua consulta. Verifique se os dados estao corretos ou tente com outros parametros.")>>
MsgErroInterno ==
    <<Fixo("Desculpe, ocorreu um erro interno ao processar sua solicitacao. Nossa equipe foi notificada e estamos trabalhando para resolver.")>>

\* `except base` catches an exception of class exc; every class raised here
\* derives from Exception
Captura(base, exc) == base = "Exception" \/ exc = base

Fim(p, r, prop) == [pc |-> p, resposta |-> r, propagou |-> prop]

\* the outer handler as it would be if it caught validation errors only
ExceptExternoSoValidacao(exc) ==
    IF Captura("ValueError", exc) THEN Fim("done", MsgErroInterno, FALSE)
    ELSE Fim("done", <<>>, TRUE)

\* the outer `except Exception` of gerenciar_consulta_usuario
ExceptExterno(exc) ==
    IF Captura("Exception", exc) THEN Fim("done", MsgErroInterno, FALSE)
    ELSE Fim("done", <<>>, TRUE)

\* the special cases and the registry lookup that follow obter_intencao
Despacho(i, mensagem) ==
    IF i = "desconhecido" THEN Fim("done", MsgDesconhecido, FALSE)
    ELSE IF i = "necessita_esclarecimento"
    THEN Fim("done",
             IF Falsy(mensagem) THEN MsgEsclarecimentoPadrao
             ELSE <<[k |-> "esclarecimento", v |-> Texto(mensagem)]>>,
             FALSE)
    ELSE IF i \notin MAPEAMENTO_INTENCOES THEN Fim("done", MsgSemManipulador(i), FALSE)
    ELSE Fim("manipulando", <<>>, FALSE)

\* the try/except around `await manipulador(entidades)`: ret is what the handler
\* returned or raised
AposManipulador(ret) ==
    IF ret.ok THEN Fim("executando", <<>>, FALSE)
    ELSE IF Captura("ValueError", ret.exc) THEN Fim("done", <<Fixo("[X] ")>> \o ret.msg, FALSE)
    ELSE ExceptExterno(ret.exc)

\* the step after execution as it would be if an empty result counted as a failure
AposExecucaoVazioComoErro(res) ==
    IF ~Falsy(res.erro) \/ res.dados = <<>> THEN Fim("done", MsgErroBD, FALSE)
    ELSE Fim("sumarizando", <<>>, FALSE)

\* the step after execution as it would be without the test for an empty result
AposExecucaoSemTesteDeVazio(res) ==
    IF ~Falsy(res.erro) THEN Fim("done", MsgErroBD, FALSE)
    ELSE Fim("sumarizando", <<>>, FALSE)

\* what follows `await executar_consulta_selecao(query_sql, params)`
AposExecucao(res) ==
    IF ~Falsy(res.erro) THEN Fim("done", MsgErroBD, FALSE)
    ELSE IF res.dados = <<>> THEN Fim("done", MsgNadaEncontrado, FALSE)
    ELSE Fim("sumarizando", <<>>, FALSE)

---------------------------------------------------------------------------
(* the request pipeline: one call of gerenciar_consulta_usuario, and, as    *)
(* the second entry point, one direct call of a handler                    *)

InitOrquestrador ==
    /\ ServicoParado
    /\ InfraParada
    /\ modo = "orquestrador"
    /\ hoje \in DiasHoje
    /\ chamada = SemChamada
    /\ retorno = SemRetorno
    /\ pc = "inicio"
    /\ PipelineParado

InitManipulador ==
    /\ ServicoParado
    /\ InfraParada
    /\ modo = "manipulador"
    /\ hoje \in DiasHoje
    /\ chamada = SemChamada
    /\ retorno = SemRetorno
    /\ pc = "manipulando"
    /\ llm_saida = SemSaidaLLM
    /\ intencao \in MAPEAMENTO_INTENCOES
    /\ entidades \in EntidadesDe(intencao)
    /\ esclarecimento = Nulo
    /\ codigo_resolvido = Nulo
    /\ ret_manip = SemRetorno
    /\ bd_chamadas = <<>>
    /\ busca_cliente = SemResultado
    /\ resultado_bd = SemResultado
    /\ llm_resumo = SemResumo
    /\ etapas = <<>>
    /\ resposta = <<>>
    /\ propagou = FALSE

\* Phase 1: await obter_intencao(llm, texto_usuario)
ObterIntencao ==
    /\ UNCHANGED <<vars_servico, vars_infra>>
    /\ modo = "orquestrador"
    /\ pc = "inicio"
    /\ \E saida \in SaidasLLM :
         LET d == obter_intencao(saida)
         IN  /\ llm_saida' = saida
             /\ intencao' = d.intencao
             /\ entidades' = d.entidades
             /\ esclarecimento' = d.mensagem_esclarecimento
    /\ pc' = "classificado"
    /\ etapas' = Append(etapas, "Classifying")
    /\ UNCHANGED <<modo, hoje, chamada, retorno, codigo_resolvido, ret_manip, bd_chamadas,
                   busca_cliente, resultado_bd, llm_resumo, resposta, propagou>>

\* the special cases and Phase 2, the registry lookup
Despachar ==
    /\ UNCHANGED <<vars_servico, vars_infra>>
    /\ modo = "orquestrador"
    /\ pc = "classificado"
    /\ LET f == Despacho(intencao, esclarecimento)
       IN  /\ pc' = f.pc
           /\ resposta' = f.resposta
           /\ propagou' = f.propagou
           /\ etapas' = IF intencao \in {"desconhecido", "necessita_esclarecimento"}
                        THEN etapas ELSE Append(etapas, "Dispatching")
    /\ UNCHANGED <<modo, hoje, chamada, retorno, llm_saida, intencao, entidades,
                   esclarecimento, codigo_resolvido, ret_manip, bd_chamadas, busca_cliente,
                   resultado_bd, llm_resumo>>

\* the handler has returned or raised ret, after entering the stages novas: a
\* direct call ends here; inside gerenciar_consulta_usuario the try/except
\* follows and a query that was built is submitted to the database
ConcluiManipulador(ret, novas) ==
    /\ ret_manip' = ret
    /\ IF modo = "manipulador"
       THEN /\ pc' = "manipulado"
            /\ etapas' = etapas \o novas
            /\ UNCHANGED <<resposta, propagou, bd_chamadas>>
       ELSE LET f == AposManipulador(ret)
            IN  /\ pc' = f.pc
                /\ resposta' = f.resposta
                /\ propagou' = f.propagou
                /\ etapas' = etapas \o novas
                               \o (IF f.pc = "executando" THEN <<"Executing">> ELSE <<>>)
                /\ bd_chamadas' =
                     IF f.pc = "executando"
                     THEN Append(bd_chamadas,
                                 [tipo |-> "consulta", sql |-> ret.sql, params |-> ret.params])
                     ELSE bd_chamadas

\* Phase 3: await manipulador(entidades), up to the handler's first await
Manipular ==
    /\ UNCHANGED <<vars_servico, vars_infra>>
    /\ pc = "manipulando"
    /\ IF intencao \in IntencoesCliente
       THEN \E r \in {_resolver_cliente(entidades)} :
              CASE r.fase = "busca" ->
                     /\ pc' = "resolvendo"
                     /\ bd_chamadas' =
                          Append(bd_chamadas,
                                 ConsultaBuscaCliente(Get(entidades, "nome_cliente")))
                     /\ etapas' = Append(etapas, "Resolving")
                     /\ UNCHANGED <<codigo_resolvido, ret_manip, resposta, propagou>>
                [] r.fase = "retorna" ->
                     /\ codigo_resolvido' = r.codigo
                     /\ \E ret \in {ManipuladorComCliente(intencao, entidades, r.codigo, hoje)} :
                          ConcluiManipulador(ret, <<"Resolving", "Building">>)
                [] OTHER ->
                     /\ codigo_resolvido' = codigo_resolvido
                     /\ ConcluiManipulador(r.erro, <<"Resolving">>)
       ELSE /\ codigo_resolvido' = codigo_resolvido
            /\ \E ret \in {ManipuladorSemCliente(intencao, entidades, hoje)} :
                 ConcluiManipulador(ret, <<"Building">>)
    /\ UNCHANGED <<modo, hoje, chamada, retorno, llm_saida, intencao, entidades,
                   esclarecimento, busca_cliente, resultado_bd, llm_resumo>>

\* the customer lookup returns and the handler runs to its end
EncontrarClientes ==
    /\ UNCHANGED <<vars_servico, vars_infra>>
    /\ pc = "resolvendo"
    /\ \E res \in ResultadosBusca :
         LET r == _resolver_cliente_apos_busca(entidades, res)
         IN  /\ busca_cliente' = res
             /\ IF r.fase = "retorna"
                THEN /\ codigo_resolvido' = r.codigo
                     /\ ConcluiManipulador(
                            ManipuladorComCliente(intencao, entidades, r.codigo, hoje),
                            <<"Building">>)
                ELSE /\ codigo_resolvido' = codigo_resolvido
                     /\ ConcluiManipulador(r.erro, <<>>)
    /\ UNCHANGED <<modo, hoje, chamada, retorno, llm_saida, intencao, entidades,
                   esclarecimento, resultado_bd, llm_resumo>>

\* Phase 4: executar_consulta_selecao returns
ExecutarConsulta ==
    /\ UNCHANGED <<vars_servico, vars_infra>>
    /\ modo = "orquestrador"
    /\ pc = "executando"
    /\ \E res \in ResultadosConsulta(intencao) :
         LET f == AposExecucao(res)
         IN  /\ resultado_bd' = res
             /\ pc' = f.pc
             /\ resposta' = f.resposta
             /\ propagou' = f.propagou
             /\ etapas' = IF f.pc = "sumarizando" THEN Append(etapas, "Summarizing")
                          ELSE etapas
    /\ UNCHANGED <<modo, hoje, chamada, retorno, llm_saida, intencao, entidades,
                   esclarecimento, codigo_resolvido, ret_manip, bd_chamadas, busca_cliente,
                   llm_resumo>>

\* Phase 5: sumarizar_resultados returns
Sumarizar ==
    /\ UNCHANGED <<vars_servico, vars_infra>>
    /\ modo = "orquestrador"
    /\ pc = "sumarizando"
    /\ \E saida \in SaidasSumarizador :
         /\ llm_resumo' = saida
         /\ resposta' = sumarizar_resultados(saida, resultado_bd.dados)
    /\ pc' = "done"
    /\ UNCHANGED <<modo, hoje, chamada, retorno, llm_saida, intencao, entidades,
                   esclarecimento, codigo_resolvido, ret_manip, bd_chamadas, busca_cliente,
                   resultado_bd, etapas, propagou>>

Next ==
    \/ ObterIntencao
    \/ Despachar
    \/ Manipular
    \/ EncontrarClientes
    \/ ExecutarConsulta
    \/ Sumarizar

Spec == InitOrquestrador /\ [][Next]_vars

\* the event loop resumes the coroutine when the call it awaits has completed
SpecJusta == Spec /\ WF_vars(Next)

NextManipulador == Manipular \/ EncontrarClientes

SpecManipulador == InitManipulador /\ [][NextManipulador]_vars

---------------------------------------------------------------------------
(* one SessaoUsuario, called directly: any cap, any run of messages *)

MaxCap == 4
MaxRegistradas == 6
TextosTeste == {"a", "b"}

\* the variables of the query pipeline, idle
ConsultaParada ==
    /\ hoje = Data(2024, 1, 1)
    /\ chamada = SemChamada
    /\ pc = "ocioso"
    /\ PipelineParado

InitSessao ==
    /\ modo = "sessao"
    /\ retorno = SemRetorno
    /\ ConsultaParada
    /\ InfraParada
    /\ relogio = 0
    /\ \E maximo \in 0..MaxCap :
         sessoes = [u \in {"u1"} |-> SessaoUsuario(timeout_minutos, maximo, 0)]
    /\ registradas = [u \in Usuarios |-> <<>>]
    /\ tarefas = [t \in Tarefas |-> TarefaLivre]
    /\ recebidas = 0
    /\ envios = <<>>
    /\ gerenciador_tasks = [max_tasks |-> max_tasks, tasks |-> {}]
    /\ corrotinas = <<>>

\* sessao.adicionar_mensagem(texto)
AdicionarMensagem ==
    /\ modo = "sessao"
    /\ Len(registradas["u1"]) < MaxRegistradas
    /\ \E texto \in TextosTeste :
         /\ sessoes' = [sessoes EXCEPT !["u1"] = adicionar_mensagem(@, texto, relogio)]
         /\ registradas' = [registradas EXCEPT !["u1"] = Append(@, texto)]
    /\ UNCHANGED <<modo, retorno, vars_consulta, vars_infra, relogio, tarefas, recebidas, envios,
                   gerenciador_tasks, corrotinas>>

NextSessao == AdicionarMensagem

SpecSessao == InitSessao /\ [][NextSessao]_vars

---------------------------------------------------------------------------
(* the WhatsApp conversation service: webhook deliveries handled by        *)
(* concurrent processar_mensagem coroutines over the shared store, the     *)
(* clock and the periodic sweep.  One action is one run of a coroutine     *)
(* between two suspension points of the event loop.  The service is run in *)
(* three scenarios, each deep where its size allows: "conversa" (many      *)
(* messages, a transport that answers, no time passing), "limpeza" (time   *)
(* passes and the sweep runs) and "envio" (the transport and the query     *)
(* pipeline fail).                                                         *)

MaxMensagens == 6
MaxMensagensLimpeza == 3
MaxMensagensEnvio == 2
MaxMensagensReentrega == 2
MaxProcessamentos == 2
MaxMensagensProcessador == 3
MaxRelogio == 32
PassosRelogio == {15, 16}

ModosServico == {"conversa", "limpeza", "envio", "reentrega", "processador"}

\* how many inbound messages the scenario delivers
LimiteMensagens ==
    CASE modo = "conversa" -> MaxMensagens
      [] modo = "limpeza" -> MaxMensagensLimpeza
      [] modo = "reentrega" -> MaxMensagensReentrega
      [] modo = "processador" -> MaxMensagensProcessador
      [] OTHER -> MaxMensagensEnvio

\* WahaConfig.max_retries
max_retries == 3

\* the text of the n-th inbound message; texts differ so that a turn is
\* recognisable in the history
TextoDe(n) == "pergunta " \o ToString(n)

\* the reply gerenciar_consulta_usuario produces for the prompt of one message
RespostaPara(texto) == Str(<<"resposta a " \o texto>>)

\* what one POST to WAHA can end in: an HTTP response of any status, a
\* timeout after the request was delivered, or a connection that failed
ResultadosRequest ==
    IF modo \in {"envio", "processador"}
    THEN {"response", "ReadTimeout", "ConnectError"}
    ELSE {"response"}

\* how gerenciar_consulta_usuario can end: with a reply, or raising
PipelineLevanta ==
    IF modo \in {"envio", "reentrega", "processador"} THEN BOOLEAN ELSE {FALSE}

InitConversa ==
    /\ modo = "conversa"
    /\ retorno = SemRetorno
    /\ ConsultaParada
    /\ ServicoParado
    /\ InfraParada

InitLimpeza ==
    /\ modo = "limpeza"
    /\ retorno = SemRetorno
    /\ ConsultaParada
    /\ ServicoParado
    /\ InfraParada

InitEnvio ==
    /\ modo = "envio"
    /\ retorno = SemRetorno
    /\ ConsultaParada
    /\ ServicoParado
    /\ InfraParada

\* in the processor scenario every second delivery is a text message with an
\* empty body, for which _extrair_texto_mensagem returns ""
CorpoVazio(message_id) == modo = "processador" /\ message_id % 2 = 0

\* self.mensagens_processando.add(message_id), kept as a set of its own in
\* the processor scenario
AdicionarProcessando(message_id) ==
    aplicacao' = IF modo = "processador"
                 THEN [aplicacao EXCEPT !.mensagens_processando = @ \cup {message_id}]
                 ELSE aplicacao

\* an exit that leaves the id in the set
DescartarProcessando_sem_descarte(message_id) == aplicacao' = aplicacao

\* the finally block: self.mensagens_processando.discard(message_id)
DescartarProcessando(message_id) ==
    aplicacao' = IF modo = "processador"
                 THEN [aplicacao EXCEPT !.mensagens_processando = @ \ {message_id}]
                 ELSE aplicacao

\* webhook_whatsapp creates the task; processar_mensagem validates the
\* payload, registers message_id in mensagens_processando, extracts the text
\* and suspends in enviar_typing, or returns False through the finally block
\* when there is no text.  Every delivery carries a new message_id.
ReceberMensagem ==
    /\ modo \in ModosServico
    /\ recebidas < LimiteMensagens
    /\ IF CorpoVazio(recebidas + 1)
       THEN UNCHANGED <<tarefas, aplicacao>>
       ELSE \E t \in Tarefas, chat_id \in Usuarios :
              /\ tarefas[t].pc = "livre"
              /\ \A outra \in Tarefas : tarefas[outra].pc = "livre" => t <= outra
              /\ tarefas' = [tarefas EXCEPT ![t] =
                                [TarefaLivre EXCEPT !.pc = "digitando",
                                                    !.chat_id = chat_id,
                                                    !.message_id = recebidas + 1,
                                                    !.texto = TextoDe(recebidas + 1)]]
              /\ AdicionarProcessando(recebidas + 1)
    /\ recebidas' = recebidas + 1
    /\ envios' = Append(envios, 0)
    /\ UNCHANGED <<modo, retorno, vars_consulta, waha, relogio, sessoes, registradas,
                   gerenciador_tasks, corrotinas>>

\* processar_mensagem from the return of enviar_typing to the suspension in
\* gerenciar_consulta_usuario: adicionar_mensagem, then obter_contexto
RegistrarMensagem ==
    /\ modo \in ModosServico
    /\ \E t \in Tarefas :
         /\ tarefas[t].pc = "digitando"
         /\ LET ss == GerenciadorContexto_adicionar_mensagem(
                          sessoes, tarefas[t].chat_id, tarefas[t].texto, relogio)
            IN  /\ sessoes' = ss
                /\ tarefas' = [tarefas EXCEPT
                                  ![t].pc = "consultando",
                                  ![t].contexto = obter_contexto(ss, tarefas[t].chat_id)]
         /\ registradas' = [registradas EXCEPT ![tarefas[t].chat_id] = Append(@, tarefas[t].texto)]
    /\ UNCHANGED <<modo, retorno, vars_consulta, vars_infra, relogio, recebidas, envios,
                   gerenciador_tasks, corrotinas>>

\* processar_mensagem from the return of gerenciar_consulta_usuario to the
\* suspension in enviar_mensagem: adicionar_resposta_bot; an exception of
\* the pipeline ends the coroutine in its except and finally blocks
ResponderMensagem ==
    /\ modo \in ModosServico
    /\ \E t \in Tarefas, levantou \in PipelineLevanta :
         /\ tarefas[t].pc = "consultando"
         /\ IF levantou
            THEN /\ tarefas' = [tarefas EXCEPT ![t] = TarefaLivre]
                 /\ DescartarProcessando(tarefas[t].message_id)
                 /\ UNCHANGED sessoes
            ELSE /\ sessoes' = GerenciadorContexto_adicionar_resposta_bot(
                                   sessoes, tarefas[t].chat_id, RespostaPara(tarefas[t].texto))
                 /\ tarefas' = [tarefas EXCEPT ![t].pc = "enviando",
                                               ![t].resposta = RespostaPara(tarefas[t].texto),
                                               ![t].tentativa = 1]
                 /\ UNCHANGED aplicacao
    /\ UNCHANGED <<modo, retorno, vars_consulta, waha, relogio, registradas, recebidas, envios,
                   gerenciador_tasks, corrotinas>>

\* one turn of the loop of _fazer_request_com_retry inside enviar_mensagem:
\* the POST of /api/sendText is made; a response of any status ends
\* enviar_mensagem and the coroutine, an httpx.HTTPError leads to the next
\* attempt while tentativa < max_retries and ends them otherwise
TransmitirResposta ==
    /\ modo \in ModosServico
    /\ \E t \in Tarefas, resultado \in ResultadosRequest :
         /\ tarefas[t].pc = "enviando"
         /\ envios' = IF resultado = "ConnectError"
                      THEN envios
                      ELSE [envios EXCEPT ![tarefas[t].message_id] = @ + 1]
         /\ IF resultado /= "response" /\ tarefas[t].tentativa < max_retries
            THEN /\ tarefas' = [tarefas EXCEPT ![t].tentativa = @ + 1]
                 /\ UNCHANGED aplicacao
            ELSE /\ tarefas' = [tarefas EXCEPT ![t] = TarefaLivre]
                 /\ DescartarProcessando(tarefas[t].message_id)
    /\ UNCHANGED <<modo, retorno, vars_consulta, waha, relogio, sessoes, registradas, recebidas,
                   gerenciador_tasks, corrotinas>>

\* time passes
AvancarRelogio ==
    /\ modo \in {"limpeza", "gerenciador"}
    /\ \E minutos \in PassosRelogio :
         /\ relogio + minutos <= MaxRelogio
         /\ relogio' = relogio + minutos
    /\ UNCHANGED <<modo, retorno, vars_consulta, vars_infra, sessoes, registradas, tarefas, recebidas,
                   envios, gerenciador_tasks, corrotinas>>

\* one turn of the loop of _iniciar_limpeza_automatica
LimparSessoesExpiradas ==
    /\ modo \in {"limpeza", "gerenciador"}
    /\ sessoes' = _limpar_sessoes_expiradas(sessoes, relogio)
    /\ UNCHANGED <<modo, retorno, vars_consulta, vars_infra, relogio, registradas, tarefas, recebidas,
                   envios, gerenciador_tasks, corrotinas>>

NextConversa ==
    \/ ReceberMensagem
    \/ RegistrarMensagem
    \/ ResponderMensagem
    \/ TransmitirResposta

NextLimpeza ==
    \/ NextConversa
    \/ AvancarRelogio
    \/ LimparSessoesExpiradas

SpecConversa == InitConversa /\ [][NextConversa]_vars

SpecLimpeza == InitLimpeza /\ [][NextLimpeza]_vars

SpecEnvio == InitEnvio /\ [][NextConversa]_vars

---------------------------------------------------------------------------
(* redelivery: the webhook delivers again a message it delivered before    *)

InitReentrega ==
    /\ modo = "reentrega"
    /\ retorno = SemRetorno
    /\ ConsultaParada
    /\ ServicoParado
    /\ InfraParada

\* ProcessadorWhatsApp.mensagens_processando: the ids added by the
\* coroutines that have not reached their finally block
mensagens_processando ==
    { tarefas[t].message_id : t \in { s \in Tarefas : tarefas[s].pc /= "livre" } }

\* the chat that message_id came from
ChatDe(message_id) ==
    IF \E t \in Tarefas : tarefas[t].pc /= "livre" /\ tarefas[t].message_id = message_id
    THEN (CHOOSE c \in { tarefas[t].chat_id :
                           t \in { s \in Tarefas : /\ tarefas[s].pc /= "livre"
                                                   /\ tarefas[s].message_id = message_id } } :
              TRUE)
    ELSE CHOOSE u \in Usuarios :
             \E i \in 1..Len(registradas[u]) : registradas[u][i] = TextoDe(message_id)

\* how many times a coroutine passed the duplicate test so far, less those
\* that ended before extracting a text
Processamentos ==
    Len(registradas["u1"]) + Len(registradas["u2"])
        + Cardinality({ t \in Tarefas : tarefas[t].pc = "digitando" })

\* the webhook delivers once more a message it delivered before:
\* processar_mensagem returns False when the id is in mensagens_processando,
\* else it registers the id and goes on to the suspension in enviar_typing
ReentregarMensagem ==
    /\ modo \in {"reentrega", "processador"}
    /\ \E message_id \in { m \in 1..recebidas : ~CorpoVazio(m) } :
         IF message_id \in (IF modo = "processador" THEN aplicacao.mensagens_processando
                                                   ELSE mensagens_processando)
         THEN UNCHANGED <<tarefas, aplicacao>>
         ELSE /\ Processamentos < MaxProcessamentos
              /\ AdicionarProcessando(message_id)
              /\ \E t \in Tarefas :
                   /\ tarefas[t].pc = "livre"
                   /\ \A outra \in Tarefas : tarefas[outra].pc = "livre" => t <= outra
                   /\ tarefas' = [tarefas EXCEPT ![t] =
                                     [TarefaLivre EXCEPT !.pc = "digitando",
                                                         !.chat_id = ChatDe(message_id),
                                                         !.message_id = message_id,
                                                         !.texto = TextoDe(message_id)]]
    /\ UNCHANGED <<modo, retorno, vars_consulta, waha, relogio, sessoes, registradas, recebidas,
                   envios, gerenciador_tasks, corrotinas>>

NextReentrega ==
    \/ NextConversa
    \/ ReentregarMensagem

SpecReentrega == InitReentrega /\ [][NextReentrega]_vars

\* the processor on its own: deliveries with and without text, redeliveries,
\* replies that raise, sends that fail
InitProcessador ==
    /\ modo = "processador"
    /\ retorno = SemRetorno
    /\ ConsultaParada
    /\ ServicoParado
    /\ waha = <<>>
    /\ aplicacao = [mensagens_processando |-> {}]

SpecProcessador == InitProcessador /\ [][NextReentrega]_vars

---------------------------------------------------------------------------
(* GerenciadorContexto called directly: its public methods in any order,   *)
(* for two users, while time passes and the periodic sweep runs            *)

MaxAdicionadas == 3

\* the sweep-cycle scenario: its horizon in minutes, how many sweeps may
\* raise, and the latest minute a message may arrive so that its session's
\* expiry and the sweep after it fall inside the horizon
MaxRelogioCiclo == 38
MaxFalhas == 1
UltimaChegada == MaxRelogioCiclo - (timeout_minutos + 1) - 5 - MaxFalhas

\* the text a user sends; it names the user, so that a turn is recognisable
\* in a context
TextosDoUsuario(u) == { "pergunta de " \o u }

\* what the last call of a method returned: a bool (encerrar_sessao), a
\* context (obter_contexto), statistics and the listed sessions
RetornoGerenciador(op, usuario, booleano, contexto, estatisticas, ativas) ==
    [op |-> op, usuario |-> usuario, booleano |-> booleano, contexto |-> contexto,
     estatisticas |-> estatisticas, ativas |-> ativas]

SemEstatisticas == [existe |-> FALSE, total_mensagens |-> 0, mensagens_recebidas |-> 0]

RetornoNone(op, usuario) == RetornoGerenciador(op, usuario, FALSE, <<>>, SemEstatisticas, {})

InitGerenciador ==
    /\ modo = "gerenciador"
    /\ retorno = RetornoNone("", "")
    /\ ConsultaParada
    /\ ServicoParado
    /\ InfraParada

\* await gerenciador_contexto.adicionar_mensagem(usuario_id, texto)
ChamarAdicionarMensagem(usuario_id) ==
    /\ modo \in {"gerenciador", "ciclo"}
    /\ modo = "ciclo" => relogio <= UltimaChegada
    /\ Len(registradas["u1"]) + Len(registradas["u2"]) < MaxAdicionadas
    /\ \E texto \in TextosDoUsuario(usuario_id) :
         /\ sessoes' = GerenciadorContexto_adicionar_mensagem(sessoes, usuario_id, texto, relogio)
         /\ registradas' = [registradas EXCEPT ![usuario_id] = Append(@, texto)]
    /\ retorno' = RetornoNone("adicionar_mensagem", usuario_id)
    /\ UNCHANGED <<modo, vars_consulta, vars_infra, relogio, tarefas, recebidas, envios,
                   gerenciador_tasks, corrotinas>>

\* await gerenciador_contexto.adicionar_resposta_bot(usuario_id, resposta)
ChamarAdicionarRespostaBot(usuario_id) ==
    /\ modo = "gerenciador"
    /\ \E texto \in TextosDoUsuario(usuario_id) :
         sessoes' = GerenciadorContexto_adicionar_resposta_bot(
                        sessoes, usuario_id, RespostaPara(texto))
    /\ retorno' = RetornoNone("adicionar_resposta_bot", usuario_id)
    /\ UNCHANGED <<modo, vars_consulta, vars_infra, relogio, registradas, tarefas, recebidas, envios,
                   gerenciador_tasks, corrotinas>>

\* await gerenciador_contexto.obter_contexto(usuario_id)
ChamarObterContexto(usuario_id) ==
    /\ modo = "gerenciador"
    /\ retorno' = [RetornoNone("obter_contexto", usuario_id)
                      EXCEPT !.contexto = obter_contexto(sessoes, usuario_id)]
    /\ UNCHANGED <<modo, vars_consulta, vars_infra, relogio, sessoes, registradas, tarefas, recebidas,
                   envios, gerenciador_tasks, corrotinas>>

\* await gerenciador_contexto.encerrar_sessao(usuario_id)
ChamarEncerrarSessao(usuario_id) ==
    /\ modo = "gerenciador"
    /\ LET r == encerrar_sessao(sessoes, usuario_id)
       IN  /\ sessoes' = r.sessoes
           /\ retorno' = [RetornoNone("encerrar_sessao", usuario_id)
                             EXCEPT !.booleano = r.retorno]
    /\ UNCHANGED <<modo, vars_consulta, vars_infra, relogio, registradas, tarefas, recebidas, envios,
                   gerenciador_tasks, corrotinas>>

\* the statistics reads: obter_estatisticas_sessao(usuario_id) and
\* listar_sessoes_ativas()
ChamarEstatisticas(usuario_id) ==
    /\ modo = "gerenciador"
    /\ retorno' = [RetornoNone("estatisticas", usuario_id)
                      EXCEPT !.estatisticas = obter_estatisticas_sessao(sessoes, usuario_id),
                             !.ativas = listar_sessoes_ativas(sessoes)]
    /\ UNCHANGED <<modo, vars_consulta, vars_infra, relogio, sessoes, registradas, tarefas, recebidas,
                   envios, gerenciador_tasks, corrotinas>>

NextGerenciador ==
    \/ \E usuario_id \in Usuarios : ChamarAdicionarMensagem(usuario_id)
    \/ \E usuario_id \in Usuarios : ChamarAdicionarRespostaBot(usuario_id)
    \/ \E usuario_id \in Usuarios : ChamarObterContexto(usuario_id)
    \/ \E usuario_id \in Usuarios : ChamarEncerrarSessao(usuario_id)
    \/ \E usuario_id \in Usuarios : ChamarEstatisticas(usuario_id)
    \/ AvancarRelogio
    \/ LimparSessoesExpiradas

SpecGerenciador == InitGerenciador /\ [][NextGerenciador]_vars

---------------------------------------------------------------------------
(* one GerenciadorTasks of any cap; the coroutines it tracks end at any     *)
(* time, and the event loop runs their done callback some time later        *)

MaxLimiteTasks == 3
MaxCriadas == 5

\* the result of adicionar_task: the task created, or the exception raised
TaskCriada(task) == [ok |-> TRUE, exc |-> "", msg |-> "", task |-> task]
TaskRecusada(exc, msg) == [ok |-> FALSE, exc |-> exc, msg |-> msg, task |-> 0]
SemTask == TaskRecusada("", "")

limpar_finalizadas_sem_efeito(tasks, estados) == tasks

\* GerenciadorTasks.limpar_finalizadas: self.tasks without the tasks that are done()
limpar_finalizadas(tasks, estados) ==
    tasks \ { task \in tasks : estados[task] /= "rodando" }

InitTasks ==
    /\ modo = "tasks"
    /\ retorno = SemTask
    /\ ConsultaParada
    /\ InfraParada
    /\ relogio = 0
    /\ sessoes = DictVazio
    /\ registradas = [u \in Usuarios |-> <<>>]
    /\ tarefas = [t \in Tarefas |-> TarefaLivre]
    /\ recebidas = 0
    /\ envios = <<>>
    /\ \E maximo \in 0..MaxLimiteTasks :
         gerenciador_tasks = [max_tasks |-> maximo, tasks |-> {}]
    /\ corrotinas = <<>>

\* await gerenciador.adicionar_task(coro): the lock is free whenever it is
\* taken, because its holder never suspends
AdicionarTask ==
    /\ modo = "tasks"
    /\ Len(corrotinas) < MaxCriadas
    /\ LET tasks == limpar_finalizadas(gerenciador_tasks.tasks, corrotinas)
           task == Len(corrotinas) + 1
       IN  IF Cardinality(tasks) >= gerenciador_tasks.max_tasks
           THEN /\ gerenciador_tasks' = [gerenciador_tasks EXCEPT !.tasks = tasks]
                /\ retorno' = TaskRecusada("RuntimeError",
                                           "Limite de tasks simultaneas atingido")
                /\ UNCHANGED corrotinas
           ELSE /\ gerenciador_tasks' = [gerenciador_tasks EXCEPT !.tasks = tasks \cup {task}]
                /\ corrotinas' = Append(corrotinas, "rodando")
                /\ retorno' = TaskCriada(task)
    /\ UNCHANGED <<modo, vars_consulta, vars_infra, relogio, sessoes, registradas, tarefas, recebidas,
                   envios>>

\* a tracked coroutine returns or raises: its task is done() and its done
\* callback is scheduled
FinalizarTask ==
    /\ modo \in {"tasks", "webhook"}
    /\ \E task \in 1..Len(corrotinas) :
         /\ corrotinas[task] = "rodando"
         /\ corrotinas' = [corrotinas EXCEPT ![task] = "finalizada"]
    /\ UNCHANGED <<modo, retorno, vars_consulta, vars_infra, relogio, sessoes, registradas, tarefas,
                   recebidas, envios, gerenciador_tasks>>

\* the event loop runs the done callback GerenciadorTasks._remover_task
RemoverTask ==
    /\ modo \in {"tasks", "webhook"}
    /\ \E task \in 1..Len(corrotinas) :
         /\ corrotinas[task] = "finalizada"
         /\ corrotinas' = [corrotinas EXCEPT ![task] = "removida"]
         /\ gerenciador_tasks' = [gerenciador_tasks EXCEPT !.tasks = @ \ {task}]
    /\ UNCHANGED <<modo, retorno, vars_consulta, vars_infra, relogio, sessoes, registradas, tarefas,
                   recebidas, envios>>

NextTasks ==
    \/ AdicionarTask
    \/ FinalizarTask
    \/ RemoverTask

SpecTasks == InitTasks /\ [][NextTasks]_vars

---------------------------------------------------------------------------
(* cliente_waha.py: one call of ClienteWaha._fazer_request_com_retry, for   *)
(* any WAHA_MAX_RETRIES                                                    *)

MaxRetriesTeste == 4

\* what one request of httpx can end in: a response of some status, an
\* httpx.HTTPError (transport errors), or an exception of another class
FimDeRequest(classe, status_code) == [classe |-> classe, status_code |-> status_code]
RespostasHTTP == { FimDeRequest("Response", status_code) : status_code \in {200, 404, 500} }
ErrosHTTP == { FimDeRequest(classe, 0) : classe \in {"ConnectError", "ReadTimeout"} }
OutrasExcecoes == { FimDeRequest("InvalidURL", 0) }

\* the argument of asyncio.sleep after the failed attempt tentativa
BackoffConstante(tentativa) == 2

\* the argument of asyncio.sleep after the failed attempt tentativa
Backoff(tentativa) == 2 ^ tentativa

\* the call before its first statement
RequestParado(maximo) ==
    [max_retries |-> maximo, pc |-> "chamando", tentativa |-> 0, pedidos |-> <<>>,
     esperas |-> <<>>, ultima_excecao |-> "None", status_code |-> 0, exc |-> ""]

InitRetry ==
    /\ modo = "retry"
    /\ retorno = SemRetorno
    /\ ConsultaParada
    /\ ServicoParado
    /\ aplicacao = <<>>
    /\ \E maximo \in 0..MaxRetriesTeste : waha = RequestParado(maximo)

\* the end of `for tentativa in range(1, max_retries + 1)`: the next value of
\* tentativa enters the body, an exhausted range leads to `raise ultima_excecao`,
\* which is a TypeError when ultima_excecao is None
ProximaTentativa(w) ==
    IF w.tentativa + 1 <= w.max_retries
    THEN [w EXCEPT !.pc = "tentando", !.tentativa = w.tentativa + 1]
    ELSE [w EXCEPT !.pc = "levantou",
                   !.exc = IF w.ultima_excecao = "None" THEN "TypeError"
                           ELSE w.ultima_excecao]

\* the statements before the loop and the first turn of `for`
IniciarRequest ==
    /\ modo = "retry"
    /\ waha.pc = "chamando"
    /\ waha' = ProximaTentativa(waha)
    /\ UNCHANGED <<modo, retorno, vars_consulta, vars_servico, aplicacao>>

\* the request of one attempt ends: a response is returned at once, an
\* httpx.HTTPError is kept and followed by the sleep or by the end of the
\* loop, any other exception leaves the function
TentarRequest ==
    /\ modo = "retry"
    /\ waha.pc = "tentando"
    /\ \E fim \in RespostasHTTP \cup ErrosHTTP \cup OutrasExcecoes :
         LET feito == [waha EXCEPT !.pedidos = Append(@, fim)]
         IN  waha' =
               IF fim \in RespostasHTTP
               THEN [feito EXCEPT !.pc = "retornou", !.status_code = fim.status_code]
               ELSE IF fim \in OutrasExcecoes
               THEN [feito EXCEPT !.pc = "levantou", !.exc = fim.classe]
               ELSE IF feito.tentativa < feito.max_retries
               THEN [feito EXCEPT !.pc = "dormindo", !.ultima_excecao = fim.classe,
                                  !.esperas = Append(@, Backoff(feito.tentativa))]
               ELSE ProximaTentativa([feito EXCEPT !.ultima_excecao = fim.classe])
    /\ UNCHANGED <<modo, retorno, vars_consulta, vars_servico, aplicacao>>

\* asyncio.sleep returns and the loop goes to its next turn
AcordarRequest ==
    /\ modo = "retry"
    /\ waha.pc = "dormindo"
    /\ waha' = ProximaTentativa(waha)
    /\ UNCHANGED <<modo, retorno, vars_consulta, vars_servico, aplicacao>>

NextRetry ==
    \/ IniciarRequest
    \/ TentarRequest
    \/ AcordarRequest

SpecRetry == InitRetry /\ [][NextRetry]_vars

\* every request has a timeout and every sleep ends: the event loop resumes
\* the coroutine
SpecRetryJusta == SpecRetry /\ WF_vars(NextRetry)

---------------------------------------------------------------------------
(* the transport client: the session-status cache *)

\* the latest second of the scenario; the clock starts at a positive timestamp
MaxSegundos == 13

\* the dictionary verificar_sessao builds, reduced to its "status" entry
StatusSessao(status) == [t |-> "dict", s |-> <<status>>, n |-> 0]

\* the answers of GET /api/sessions/<name>: 200 with a session status, 404,
\* another code, or an httpx.HTTPError
RespostasDeSessao ==
    { [status_code |-> 200, status |-> status] : status \in {"WORKING", "SCAN_QR_CODE"} }
        \cup { [status_code |-> 404, status |-> ""], [status_code |-> 500, status |-> ""],
               [status_code |-> 0, status |-> "HTTPError"] }

\* the status codes of the POST requests of iniciar_sessao and parar_sessao; 0
\* stands for a raised exception
CodigosDeComando == {0, 200, 201, 204, 404, 500}

\* iniciar_sessao and parar_sessao clear the cached status and nothing else
InvalidarCache(cache) == [cache EXCEPT !.status = Nulo]

_cache_valido(cache, agora) ==
    IF Falsy(cache.last_check) THEN FALSE
    ELSE agora - cache.last_check.n < cache.cache_duration

ResultadoDaSessao(resposta_http) ==
    IF resposta_http.status_code = 200 THEN StatusSessao(resposta_http.status)
    ELSE IF resposta_http.status_code = 404 THEN StatusSessao("NOT_FOUND")
    ELSE IF resposta_http.status_code = 0 THEN StatusSessao("CONNECTION_ERROR")
    ELSE StatusSessao("ERROR")

\* verificar_sessao: the new client state and the returned value
verificar_sessao(w, usar_cache, resposta_http) ==
    IF usar_cache /\ _cache_valido(w.session_cache, w.agora)
    THEN [waha |-> w,
          retorno |-> [op |-> "verificar_sessao", usar_cache |-> usar_cache,
                       do_cache |-> TRUE, valor |-> w.session_cache.status]]
    ELSE [waha |-> [w EXCEPT !.session_cache =
                                [status |-> ResultadoDaSessao(resposta_http),
                                 last_check |-> Inteiro(w.agora),
                                 cache_duration |-> IF resposta_http.status_code = 0 THEN 5
                                                    ELSE @.cache_duration]],
          retorno |-> [op |-> "verificar_sessao", usar_cache |-> usar_cache,
                       do_cache |-> FALSE, valor |-> ResultadoDaSessao(resposta_http)]]

\* parar_sessao: True and an invalidated cache on 200, 204 and 404
parar_sessao(w, codigo) ==
    IF codigo \in {200, 204, 404}
    THEN [waha |-> [w EXCEPT !.session_cache = InvalidarCache(@), !.invalidada = TRUE],
          sucesso |-> TRUE]
    ELSE [waha |-> w, sucesso |-> FALSE]

\* iniciar_sessao: stops the session first, whatever that returns, then posts
\* the new session; 200 and 201 invalidate the cache
iniciar_sessao(w, codigo_parar, codigo) ==
    LET parada == parar_sessao(w, codigo_parar).waha
    IN  IF codigo \in {200, 201}
        THEN [waha |-> [parada EXCEPT !.session_cache = InvalidarCache(@),
                                      !.invalidada = TRUE],
              sucesso |-> TRUE]
        ELSE [waha |-> parada, sucesso |-> FALSE]

RetornoDeComando(op, sucesso) ==
    [op |-> op, usar_cache |-> FALSE, do_cache |-> FALSE,
     valor |-> [t |-> "bool", s |-> <<>>, n |-> IF sucesso THEN 1 ELSE 0]]

InitCache ==
    /\ modo = "cache"
    /\ retorno = RetornoDeComando("", FALSE)
    /\ ConsultaParada
    /\ ServicoParado
    /\ aplicacao = <<>>
    /\ waha = [session_cache |-> [status |-> Nulo, last_check |-> Nulo,
                                  cache_duration |-> 10],
               agora |-> 1, invalidada |-> FALSE]
    \* invalidada is history: a command has succeeded since the last fresh request

PassarSegundos ==
    /\ modo = "cache"
    /\ \E segundos \in {1, 4, 6} :
         /\ waha.agora + segundos <= MaxSegundos
         /\ waha' = [waha EXCEPT !.agora = @ + segundos]
    /\ UNCHANGED <<modo, retorno, vars_consulta, vars_servico, aplicacao>>

VerificarSessao(usar_cache) ==
    /\ modo = "cache"
    /\ \E resposta_http \in RespostasDeSessao :
         LET r == verificar_sessao(waha, usar_cache, resposta_http)
         IN  /\ waha' = [r.waha EXCEPT !.invalidada = IF r.retorno.do_cache THEN @ ELSE FALSE]
             /\ retorno' = r.retorno
    /\ UNCHANGED <<modo, vars_consulta, vars_servico, aplicacao>>

IniciarSessao ==
    /\ modo = "cache"
    /\ \E codigo_parar \in CodigosDeComando, codigo \in CodigosDeComando :
         LET r == iniciar_sessao(waha, codigo_parar, codigo)
         IN  /\ waha' = r.waha
             /\ retorno' = RetornoDeComando("iniciar_sessao", r.sucesso)
    /\ UNCHANGED <<modo, vars_consulta, vars_servico, aplicacao>>

PararSessao ==
    /\ modo = "cache"
    /\ \E codigo \in CodigosDeComando :
         LET r == parar_sessao(waha, codigo)
         IN  /\ waha' = r.waha
             /\ retorno' = RetornoDeComando("parar_sessao", r.sucesso)
    /\ UNCHANGED <<modo, vars_consulta, vars_servico, aplicacao>>

NextCache ==
    \/ PassarSegundos
    \/ VerificarSessao(TRUE)
    \/ VerificarSessao(FALSE)
    \/ IniciarSessao
    \/ PararSessao

SpecCache == InitCache /\ [][NextCache]_vars

---------------------------------------------------------------------------
(* the application lifespan and the session store's sweep task *)

\* the methods class GerenciadorContexto defines
MetodosGerenciadorContexto ==
    { "__init__", "_iniciar_limpeza_automatica", "adicionar_mensagem",
      "adicionar_resposta_bot", "obter_contexto", "_limpar_sessoes_expiradas",
      "encerrar_sessao", "obter_estatisticas_globais", "obter_estatisticas_sessao",
      "listar_sessoes_ativas", "encerrar" }

\* os.getenv(name, default)
Getenv(valor, padrao) == IF valor = Ausente THEN padrao ELSE valor

TaskLimpeza(estado, acorda_em) == [estado |-> estado, acorda_em |-> acorda_em]

\* GerenciadorContexto.__init__ ends in asyncio.create_task, which needs a
\* running event loop
_iniciar_limpeza_automatica(a) ==
    IF a.laco_rodando
    THEN [a EXCEPT !.pc = "importado", !.task_limpeza = TaskLimpeza("pronta", 0)]
    ELSE [a EXCEPT !.pc = "levantou", !.exc = "RuntimeError: no running event loop"]

\* the part of lifespan before its yield
lifespan_startup(a) ==
    LET model == Getenv(a.LLM_MODEL, Str(<<"llama3.1">>))
        base_url == Getenv(a.OLLAMA_BASE_URL, Str(<<"http://localhost:11434">>))
    IN  IF Falsy(model)
        THEN [a EXCEPT !.pc = "levantou", !.exc = "RuntimeError: configuracao do LLM"]
        ELSE IF ~a.modelo_valido
        THEN [a EXCEPT !.pc = "levantou", !.exc = "RuntimeError: inicializar o LLM"]
        ELSE IF "iniciar" \notin MetodosGerenciadorContexto
        THEN [a EXCEPT !.pc = "levantou", !.exc = "AttributeError: iniciar",
                       !.llm = [model |-> model, base_url |-> base_url]]
        ELSE [a EXCEPT !.pc = "operacional",
                       !.llm = [model |-> model, base_url |-> base_url]]

SemLLM == [model |-> Nulo, base_url |-> Nulo]

\* the process before app.main is imported, with its environment
AplicacaoImportando(laco_rodando, modelo_valido, LLM_MODEL, OLLAMA_BASE_URL) ==
    [pc |-> "importando", laco_rodando |-> laco_rodando,
     modelo_valido |-> modelo_valido, LLM_MODEL |-> LLM_MODEL,
     OLLAMA_BASE_URL |-> OLLAMA_BASE_URL, llm |-> SemLLM,
     task_limpeza |-> TaskLimpeza("None", 0), falhas |-> 0, exc |-> ""]

InitLifespan ==
    /\ modo = "lifespan"
    /\ retorno = SemRetorno
    /\ ConsultaParada
    /\ ServicoParado
    /\ waha = <<>>
    /\ \E laco_rodando \in BOOLEAN, modelo_valido \in BOOLEAN,
          LLM_MODEL \in {Ausente, Str(<<>>), Str(<<"llama3.1">>), Str(<<"mistral">>)},
          OLLAMA_BASE_URL \in {Ausente, Str(<<"http://ollama:11434">>)} :
         aplicacao = AplicacaoImportando(laco_rodando, modelo_valido, LLM_MODEL,
                                         OLLAMA_BASE_URL)

\* the module-level gerenciador_contexto = GerenciadorContexto(...)
ImportarGerenciadorContexto ==
    /\ modo = "lifespan"
    /\ aplicacao.pc = "importando"
    /\ aplicacao' = _iniciar_limpeza_automatica(aplicacao)
    /\ UNCHANGED <<modo, retorno, vars_consulta, vars_servico, waha>>

LifespanStartup ==
    /\ modo = "lifespan"
    /\ aplicacao.pc = "importado"
    /\ aplicacao' = lifespan_startup(aplicacao)
    /\ UNCHANGED <<modo, retorno, vars_consulta, vars_servico, waha>>

\* limpeza_periodica without its loop: one sweep, and the task is done
RodarLimpezaPeriodica_sem_laco ==
    /\ modo \in {"lifespan", "ciclo"}
    /\ aplicacao.pc \in {"importado", "operacional"}
    /\ aplicacao.task_limpeza.estado = "pronta"
    /\ aplicacao' = [aplicacao EXCEPT !.task_limpeza = TaskLimpeza("finalizada", relogio)]
    /\ sessoes' = _limpar_sessoes_expiradas(sessoes, relogio)
    /\ UNCHANGED <<modo, retorno, vars_consulta, waha, relogio, registradas, tarefas, recebidas,
                   envios, gerenciador_tasks, corrotinas>>

\* one iteration of limpeza_periodica: the sweep, then the sleep of 5 minutes
RodarLimpezaPeriodica ==
    /\ modo \in {"lifespan", "ciclo"}
    /\ aplicacao.pc \in {"importado", "operacional"}
    /\ aplicacao.task_limpeza.estado = "pronta"
    /\ aplicacao' = [aplicacao EXCEPT !.task_limpeza = TaskLimpeza("dormindo", relogio + 5)]
    /\ sessoes' = _limpar_sessoes_expiradas(sessoes, relogio)
    /\ UNCHANGED <<modo, retorno, vars_consulta, waha, relogio, registradas, tarefas, recebidas,
                   envios, gerenciador_tasks, corrotinas>>

NextLifespan ==
    \/ ImportarGerenciadorContexto
    \/ LifespanStartup
    \/ RodarLimpezaPeriodica

SpecLifespan == InitLifespan /\ [][NextLifespan]_vars

SpecLifespanJusta == SpecLifespan /\ WF_vars(NextLifespan)

---------------------------------------------------------------------------
(* the WhatsApp webhook in front of the task manager *)

MaxEventos == 4

\* what a POST /webhook/whatsapp can carry: a JSON body with payload.event, or
\* a body request.json() raises on
EventosWebhook == {"message", "session.status", "outro", "json invalido"}

RespostaWebhook(status, error) == [status |-> status, error |-> error]

EventoRecebido(evento, entregue) == [evento |-> evento, entregue |-> entregue]

InitWebhook ==
    /\ modo = "webhook"
    /\ retorno = RespostaWebhook("", "")
    /\ ConsultaParada
    /\ InfraParada
    /\ relogio = 0
    /\ sessoes = DictVazio
    /\ registradas = [u \in Usuarios |-> <<>>]
    /\ tarefas = [t \in Tarefas |-> TarefaLivre]
    /\ recebidas = 0
    /\ envios = <<>>
    /\ \E maximo \in 1..MaxLimiteTasks :
         gerenciador_tasks = [max_tasks |-> maximo, tasks |-> {}]
    /\ corrotinas = <<>>

\* webhook_whatsapp: a "message" event goes to adicionar_task, whose
\* RuntimeError is logged; every path answers "received".  envios keeps, per
\* request, 1 when the event reached processar_mensagem and 0 otherwise;
\* registradas["u1"] keeps the events.
WebhookWhatsApp ==
    /\ modo = "webhook"
    /\ recebidas < MaxEventos
    /\ \E evento \in EventosWebhook :
         LET tasks == limpar_finalizadas(gerenciador_tasks.tasks, corrotinas)
             task == Len(corrotinas) + 1
             recusada == Cardinality(tasks) >= gerenciador_tasks.max_tasks
         IN  /\ registradas' = [registradas EXCEPT !["u1"] = Append(@, evento)]
             /\ IF evento = "message"
                THEN /\ gerenciador_tasks' =
                            [gerenciador_tasks EXCEPT
                                !.tasks = IF recusada THEN tasks ELSE tasks \cup {task}]
                     /\ corrotinas' = IF recusada THEN corrotinas
                                      ELSE Append(corrotinas, "rodando")
                     /\ envios' = Append(envios, IF recusada THEN 0 ELSE 1)
                ELSE /\ envios' = Append(envios, 0)
                     /\ UNCHANGED <<gerenciador_tasks, corrotinas>>
             /\ retorno' = IF evento = "json invalido"
                           THEN RespostaWebhook("received", "processing_failed")
                           ELSE RespostaWebhook("received", "")
    /\ recebidas' = recebidas + 1
    /\ UNCHANGED <<modo, vars_consulta, vars_infra, relogio, sessoes, tarefas>>

NextWebhook ==
    \/ WebhookWhatsApp
    \/ FinalizarTask
    \/ RemoverTask

SpecWebhook == InitWebhook /\ [][NextWebhook]_vars

\* the event loop runs every handler and every task that is ready
SpecWebhookJusta == SpecWebhook /\ WF_vars(NextWebhook)

---------------------------------------------------------------------------
(* the sweep cycle of a GerenciadorContexto built under a running event    *)
(* loop, in minutes: requests go on while the task sleeps and sweeps        *)

InitCiclo ==
    /\ modo = "ciclo"
    /\ retorno = RetornoNone("", "")
    /\ ConsultaParada
    /\ ServicoParado
    /\ waha = <<>>
    /\ aplicacao = _iniciar_limpeza_automatica(
                       AplicacaoImportando(TRUE, TRUE, Ausente, Ausente))

\* a minute passes; a task that is ready runs first, and a sleep ends on time
PassarMinuto ==
    /\ modo = "ciclo"
    /\ relogio < MaxRelogioCiclo
    /\ aplicacao.task_limpeza.estado /= "pronta"
    /\ aplicacao.task_limpeza.estado = "dormindo" => relogio < aplicacao.task_limpeza.acorda_em
    /\ relogio' = relogio + 1
    /\ UNCHANGED <<modo, retorno, vars_consulta, vars_infra, sessoes, registradas, tarefas,
                   recebidas, envios, gerenciador_tasks, corrotinas>>

\* asyncio.sleep returns and the loop of limpeza_periodica goes round
AcordarLimpeza ==
    /\ modo = "ciclo"
    /\ aplicacao.task_limpeza.estado = "dormindo"
    /\ relogio >= aplicacao.task_limpeza.acorda_em
    /\ aplicacao' = [aplicacao EXCEPT !.task_limpeza.estado = "pronta"]
    /\ UNCHANGED <<modo, retorno, vars_consulta, vars_servico, waha>>

\* the sweep raises an Exception: it is logged and the task sleeps 1 minute
FalharLimpezaPeriodica ==
    /\ modo = "ciclo"
    /\ aplicacao.task_limpeza.estado = "pronta"
    /\ aplicacao.falhas < MaxFalhas
    /\ aplicacao' = [aplicacao EXCEPT !.task_limpeza = TaskLimpeza("dormindo", relogio + 1),
                                      !.falhas = @ + 1]
    /\ UNCHANGED <<modo, retorno, vars_consulta, vars_servico, waha>>

\* await gerenciador_contexto.encerrar()
EncerrarGerenciador ==
    /\ modo = "ciclo"
    /\ aplicacao' = IF aplicacao.task_limpeza.estado \in {"pronta", "dormindo"}
                    THEN [aplicacao EXCEPT !.task_limpeza.estado = "cancelada"]
                    ELSE aplicacao
    /\ retorno' = RetornoNone("encerrar", "")
    /\ UNCHANGED <<modo, vars_consulta, vars_servico, waha>>

NextCiclo ==
    \/ \E usuario_id \in Usuarios : ChamarAdicionarMensagem(usuario_id)
    \/ PassarMinuto
    \/ RodarLimpezaPeriodica
    \/ FalharLimpezaPeriodica
    \/ AcordarLimpeza
    \/ EncerrarGerenciador

SpecCiclo == InitCiclo /\ [][NextCiclo]_vars

\* the event loop runs a ready task and ends a sleep that is over, and time
\* goes on
SpecCicloJusta ==
    /\ SpecCiclo
    /\ WF_vars(PassarMinuto)
    /\ WF_vars(AcordarLimpeza)
    /\ WF_vars(RodarLimpezaPeriodica \/ FalharLimpezaPeriodica)

---------------------------------------------------------------------------
(* claims about the builders *)

\* the period argument as the contract reads it: trimmed, lower-cased, spaces
\* folded to underscores; a period is usable when that reading is a canonical
\* token or one of its synonyms
PeriodoForaDoConjunto(v) ==
    \/ v.t = "none"
    \/ v.t = "str" /\ StrReplaceEspaco(StrLower(StrStrip(v.s))) \notin PeriodosReconhecidos

\* the calls that consume a period: the four period builders and the normalizer
ConsomePeriodo(c) ==
    c.construtor \in ConstrutoresComPeriodo \cup {"_construir_clausula_data_otimizada"}

\* C1: a period builder or the normalizer called with a period that is None,
\* empty, "sempre" or outside the canonical tokens and synonyms raises
\* ValueError and returns no template and no parameters, so no window.
C1_PeriodoInvalidoRejeitado ==
    (pc = "retornou" /\ ConsomePeriodo(chamada) /\ PeriodoForaDoConjunto(chamada.periodo))
        => /\ ~retorno.ok
           /\ retorno.exc = "ValueError"
           /\ retorno.sql = <<>>
           /\ retorno.params = {}

\* C1 witness: the sales-history builder was called with an unknown token and raised
C1_Witness ==
    /\ pc = "retornou"
    /\ chamada.construtor = "construir_query_registros_vendas"
    /\ chamada.periodo = Str(<<"ano", "_", "passado">>)
    /\ retorno.exc = "ValueError"

\* calls that differ from c only in caller-supplied values: search text,
\* customer code or order id, position text, requested limit
VariantesDeValor(c) ==
    { c2 \in Chamadas : /\ c2.construtor = c.construtor
                        /\ c2.criterio = c.criterio
                        /\ c2.periodo = c.periodo }

\* C3: the template of a builder call is the template of every call of the same
\* builder that differs only in caller-supplied values, and no piece of the
\* template is the text of the requested limit.
C3_TemplateIndependeDosValores ==
    (pc = "retornou" /\ retorno.ok /\ chamada.construtor \in ConstrutoresComLimite)
        => /\ \A c2 \in VariantesDeValor(chamada) :
                  Construir(c2, hoje).ok => Construir(c2, hoje).sql = retorno.sql
           /\ \A i \in 1..Len(retorno.sql) : retorno.sql[i] /= Texto(chamada.limite)

---------------------------------------------------------------------------
(* claims about the handlers and the resolver *)

\* the entities carry no period: the key is missing, None or the empty text
SemPeriodo(e) == Get(e, "periodo_tempo") \in {Ausente, Nulo, Str(<<>>)}

\* C2: the handler of a ranking or history intent whose entities carry no
\* period ends by raising ValueError; it returns no query.
C2_ManipuladorSemPeriodoFalha ==
    (/\ modo = "manipulador"
     /\ pc = "manipulado"
     /\ intencao \in INTENCOES_QUE_PRECISAM_PERIODO
     /\ SemPeriodo(entidades))
        => /\ ~ret_manip.ok
           /\ ret_manip.exc = "ValueError"

\* the largest limit a handler asks for by itself
MaiorLimitePadrao == 50

ConsultasSubmetidas == { i \in 1..Len(bd_chamadas) : bd_chamadas[i].tipo = "consulta" }

\* C4: the value bound to :limite in a submitted query is an integer no larger
\* than the largest limit the handlers themselves ask for, whatever the
\* entities request.
C4_LimiteVinculadoTemTeto ==
    \A i \in ConsultasSubmetidas :
        "limite" \in Chaves(bd_chamadas[i].params)
            => /\ Valor(bd_chamadas[i].params, "limite").t = "int"
               /\ Valor(bd_chamadas[i].params, "limite").n <= MaiorLimitePadrao

\* the name lookup was submitted / has returned
BuscaFeita == \E i \in 1..Len(bd_chamadas) : bd_chamadas[i].tipo = "busca_cliente"
BuscaRetornou == BuscaFeita /\ pc /= "resolvendo"

\* the handler of a customer-scoped intent has been entered
ResolucaoIniciada ==
    /\ intencao \in IntencoesCliente
    /\ pc \notin {"inicio", "classificado", "manipulando"}

\* the three ways customer resolution fails, read from the entities and from
\* what the lookup returned
SemIdentificador ==
    /\ ResolucaoIniciada
    /\ Falsy(Get(entidades, "codigo_cliente"))
    /\ Falsy(Get(entidades, "nome_cliente"))
NaoEncontrado ==
    /\ ResolucaoIniciada /\ BuscaRetornou
    /\ Falsy(busca_cliente.erro) /\ busca_cliente.dados = <<>>
Ambiguo ==
    /\ ResolucaoIniciada /\ BuscaRetornou
    /\ Falsy(busca_cliente.erro) /\ Len(busca_cliente.dados) > 1

\* r lists candidate c: its code and, in the same line, its name
ListaCandidato(r, c) ==
    \E j \in 1..Len(r) :
        /\ j + 3 <= Len(r)
        /\ r[j] = Fixo("- Codigo: ") /\ r[j + 1] = Dado(c.codcli)
        /\ r[j + 2] = Fixo(", Nome: ") /\ r[j + 3] = Dado(c.cliente)

\* C5: when customer resolution ends in MissingIdentifier, NotFound or
\* Ambiguous the request is over, the reply is the resolver's message, no intent
\* query was built or submitted, and the Ambiguous reply lists every candidate
\* of the lookup with code and name.
C5_ResolucaoFalhaEncerra ==
    (modo = "orquestrador" /\ (SemIdentificador \/ NaoEncontrado \/ Ambiguo))
        => /\ pc = "done"
           /\ ~propagou
           /\ resposta = <<Fixo("[X] ")>> \o
                  (IF SemIdentificador THEN MsgSemIdentificador
                   ELSE IF NaoEncontrado THEN MsgNaoEncontrado(Get(entidades, "nome_cliente"))
                   ELSE MsgAmbiguo(busca_cliente.dados))
           /\ ConsultasSubmetidas = {}
           /\ ~ret_manip.ok /\ ret_manip.sql = <<>>
           /\ \A i \in 1..Len(etapas) : etapas[i] \notin {"Building", "Executing", "Summarizing"}
           /\ resultado_bd = SemResultado
           /\ Ambiguo => \A k \in 1..Len(busca_cliente.dados) :
                             ListaCandidato(resposta, busca_cliente.dados[k])

\* C5 witness: a credit-limit request whose lookup returned every candidate
\* the bound allows
C5_Witness ==
    /\ modo = "orquestrador"
    /\ pc = "done"
    /\ intencao = "consultar_limite_credito"
    /\ Ambiguo
    /\ Len(busca_cliente.dados) = MaxCandidatos

\* the entities contain a numeric customer code / no customer code / a name
TemCodigo(e) == PyInt(Get(e, "codigo_cliente")).ok
SemCodigo(e) == Get(e, "codigo_cliente").t \in {"absent", "none"}
TemNome(e) == Get(e, "nome_cliente").t = "str" /\ Get(e, "nome_cliente").s /= <<>>

\* C6: after a customer-scoped handler ran, a numeric code in the entities was
\* returned with no lookup; with no code, a name was looked up and 0, 1, more
\* rows gave NotFound, the row's id, Ambiguous with all candidates; with
\* neither, MissingIdentifier.
C6_ResolverCliente ==
    (modo = "manipulador" /\ pc = "manipulado" /\ intencao \in IntencoesCliente)
        => /\ TemCodigo(entidades)
                => /\ ~BuscaFeita
                   /\ codigo_resolvido = Inteiro(PyInt(Get(entidades, "codigo_cliente")).n)
           /\ (SemCodigo(entidades) /\ TemNome(entidades))
                => /\ BuscaFeita
                   /\ Falsy(busca_cliente.erro)
                        => CASE Len(busca_cliente.dados) = 0 ->
                                  ret_manip = Levanta("ValueError",
                                      MsgNaoEncontrado(Get(entidades, "nome_cliente")))
                             [] Len(busca_cliente.dados) = 1 ->
                                  codigo_resolvido = busca_cliente.dados[1].codcli
                             [] OTHER ->
                                  ret_manip = Levanta("ValueError",
                                                      MsgAmbiguo(busca_cliente.dados))
           /\ (SemCodigo(entidades) /\ ~TemNome(entidades))
                => /\ ~BuscaFeita
                   /\ ret_manip = Levanta("ValueError", MsgSemIdentificador)

---------------------------------------------------------------------------
(* claims about gerenciar_consulta_usuario *)

\* the text of reply r has at least one character
TextoNaoVazio(r) == \E j \in 1..Len(r) : r[j].v /= ""

\* C7: under fair scheduling of the request's steps, every request ends; until
\* then it has no reply and has raised nothing, and once ended it has
\* returned a non-empty text and raised nothing to its caller.
C7_SempreUmaResposta ==
    /\ [](modo = "orquestrador"
            => /\ pc /= "done" => (resposta = <<>> /\ ~propagou)
               /\ pc = "done" => (~propagou /\ TextoNaoVazio(resposta)))
    /\ <>(pc = "done")
    /\ [][pc = "done" => UNCHANGED resposta]_vars

\* C7 witness: a handler raised something that is not a validation error and
\* the request ended with the generic apology
C7_Witness ==
    /\ modo = "orquestrador"
    /\ pc = "done"
    /\ ~ret_manip.ok
    /\ ret_manip.exc \in {"AttributeError", "TypeError"}
    /\ resposta = MsgErroInterno

\* C8: every part of a reply is authored text, the echo of an entity, the
\* classifier's clarification, summarizer text or data of the rows: never the
\* text of an exception of the runtime or a library, a piece of SQL or the
\* database's error text.
C8_RespostaSemTextoDeExcecao ==
    (modo = "orquestrador" /\ pc = "done")
        => \A j \in 1..Len(resposta) :
               /\ resposta[j].k \in { "fixo", "entidade", "esclarecimento", "llm", "dado",
                                      "coluna", "intencao" }
               /\ \A i \in 1..Len(ret_manip.sql) : resposta[j].v /= ret_manip.sql[i]
               /\ resposta[j].v /= Texto(busca_cliente.erro)
               /\ resposta[j].v /= Texto(resultado_bd.erro)

\* C9: a request whose customer lookup failed in the database ends with a
\* generic apology.
C9_FalhaNaBuscaEhErroDeSistema ==
    (modo = "orquestrador" /\ pc = "done" /\ BuscaRetornou /\ ~Falsy(busca_cliente.erro))
        => resposta \in {MsgErroInterno, MsgErroBD}

OrdemDasEtapas ==
    <<"Classifying", "Dispatching", "Resolving", "Building", "Executing", "Summarizing">>

PosicaoDaEtapa(et) == CHOOSE k \in 1..Len(OrdemDasEtapas) : OrdemDasEtapas[k] = et

Entrou(et) == \E i \in 1..Len(etapas) : etapas[i] = et

\* C10: the stages entered so far are in the order of OrdemDasEtapas, each at
\* most once, Resolving only for customer-scoped intents; a submitted intent
\* query follows a valid classification, a registered handler, a resolved
\* customer (customer-scoped intents) and a built query; the summarizer ran
\* only on an execution without error and with at least one row.
C10_OrdemDasEtapas ==
    modo = "orquestrador"
        => /\ \A i \in 1..Len(etapas) : \E k \in 1..Len(OrdemDasEtapas) : etapas[i] = OrdemDasEtapas[k]
           /\ \A i, j \in 1..Len(etapas) :
                  i < j => PosicaoDaEtapa(etapas[i]) < PosicaoDaEtapa(etapas[j])
           /\ Entrou("Resolving") <=> (Entrou("Dispatching") /\ intencao \in IntencoesCliente
                                        /\ pc /= "manipulando")
           /\ ConsultasSubmetidas /= {}
                => /\ Cardinality(ConsultasSubmetidas) = 1
                   /\ Entrou("Classifying") /\ Entrou("Dispatching") /\ Entrou("Building")
                   /\ DictValido(llm_saida)
                   /\ intencao \in MAPEAMENTO_INTENCOES
                   /\ intencao \in IntencoesCliente
                        => (Entrou("Resolving") /\ codigo_resolvido.t = "int")
                   /\ ret_manip.ok
                   /\ \A i \in ConsultasSubmetidas :
                          /\ bd_chamadas[i].sql = ret_manip.sql
                          /\ bd_chamadas[i].params = ret_manip.params
                          /\ i = Len(bd_chamadas)
           /\ Entrou("Executing") <=> ConsultasSubmetidas /= {}
           /\ (Entrou("Summarizing") \/ llm_resumo /= SemResumo)
                => /\ Entrou("Executing")
                   /\ Falsy(resultado_bd.erro)
                   /\ Len(resultado_bd.dados) >= 1

\* C10 witness: a customer-scoped request went through all six stages
C10_Witness ==
    /\ modo = "orquestrador"
    /\ pc = "done"
    /\ etapas = OrdemDasEtapas
    /\ BuscaFeita
    /\ llm_resumo.tipo = "texto"

---------------------------------------------------------------------------
(* claims about the classifier's period check and the period windows *)

\* the period entity is no valid period: absent, None, empty, "sempre" or a
\* token outside the canonical set and its synonyms
PeriodoInvalido(v) == v.t = "absent" \/ PeriodoForaDoConjunto(v)

\* the classifier delivered a period-mandatory intent with no valid period
SaidaSemPeriodoValido ==
    /\ modo = "orquestrador"
    /\ pc /= "inicio"
    /\ llm_saida.tipo = "dict"
    /\ DictValido(llm_saida)
    /\ llm_saida.intencao \in INTENCOES_QUE_PRECISAM_PERIODO
    /\ PeriodoInvalido(Get(llm_saida.entidades, "periodo_tempo"))

\* C11: a period-mandatory intent delivered without a valid period becomes
\* necessita_esclarecimento with empty entities and the non-empty message of
\* that intent; the request returns that message and enters no handler, builds
\* no query and submits nothing to the database.
C11_PeriodoInvalidoPedeEsclarecimento ==
    SaidaSemPeriodoValido
        => /\ intencao = "necessita_esclarecimento"
           /\ entidades = EntidadesVazias
           /\ esclarecimento = MensagemEsclarecimentoPeriodo(llm_saida.intencao)
           /\ Texto(esclarecimento) /= ""
           /\ pc \in {"classificado", "done"}
           /\ pc = "done" => resposta = <<[k |-> "esclarecimento", v |-> Texto(esclarecimento)]>>
           /\ ret_manip = SemRetorno
           /\ bd_chamadas = <<>>
           /\ etapas = <<"Classifying">>

\* the window bounds of a normalizer result
InicioDe(r) == Valor(r.params, "data_inicio").n
FimDe(r) == Valor(r.params, "data_fim").n

\* the normalizer's result for token tok on the current day
Janela(tok) == _construir_clausula_data_otimizada(Str(tok), "DATA", hoje)

\* pairs (earlier, later) of adjacent periods, synonyms included
PeriodosAdjacentes ==
    { <<<<"ontem">>, <<"hoje">>>> }
    \cup ({<<"ultima", "_", "semana">>, <<"semana", "_", "passada">>}
              \X {<<"esta", "_", "semana">>, <<"semana", "_", "atual">>})
    \cup ({<<"ultimo", "_", "mes">>, <<"mes", "_", "passado">>}
              \X {<<"este", "_", "mes">>, <<"mes", "_", "atual">>})

\* C18: the window the normalizer returns for a canonical token or synonym has
\* end > start, and it meets the window of the adjacent period of the same day:
\* the earlier period ends where the later one starts.
C18_JanelasContiguas ==
    (/\ pc = "retornou"
     /\ chamada.construtor = "_construir_clausula_data_otimizada"
     /\ chamada.periodo \in PeriodosCanonicos)
        => /\ retorno.ok
           /\ Chaves(retorno.params) = {"data_inicio", "data_fim"}
           /\ InicioDe(retorno) < FimDe(retorno)
           /\ \A par \in PeriodosAdjacentes :
                  /\ chamada.periodo = Str(par[1])
                         => (Janela(par[2]).ok /\ FimDe(retorno) = InicioDe(Janela(par[2])))
                  /\ chamada.periodo = Str(par[2])
                         => (Janela(par[1]).ok /\ InicioDe(Janela(par[1])) < InicioDe(retorno)
                             /\ FimDe(Janela(par[1])) = InicioDe(retorno))

\* C18 witness: "last month" resolved on a leap day
C18_Witness ==
    /\ pc = "retornou"
    /\ chamada.construtor = "_construir_clausula_data_otimizada"
    /\ chamada.periodo = Str(<<"ultimo", "_", "mes">>)
    /\ hoje = Data(2024, 2, 29)
    /\ retorno.ok
    /\ FimDe(retorno) - InicioDe(retorno) = 31

\* the canonical token a synonym stands for
Canonico(tok) ==
    CASE tok = <<"mes", "_", "atual">> -> <<"este", "_", "mes">>
      [] tok = <<"mes", "_", "passado">> -> <<"ultimo", "_", "mes">>
      [] tok = <<"semana", "_", "atual">> -> <<"esta", "_", "semana">>
      [] tok = <<"semana", "_", "passada">> -> <<"ultima", "_", "semana">>
      [] OTHER -> tok

\* C19: a period that, trimmed and lower-cased, is a canonical token or a
\* synonym gives the result of that trimmed lower-case token, and the result of
\* the canonical token the synonym stands for.
C19_CanonizacaoDoPeriodo ==
    (/\ pc = "retornou"
     /\ chamada.construtor = "_construir_clausula_data_otimizada"
     /\ chamada.periodo.t = "str"
     /\ StrLower(StrStrip(chamada.periodo.s)) \in PeriodosReconhecidos)
        => /\ retorno.ok
           /\ retorno = Janela(StrLower(StrStrip(chamada.periodo.s)))
           /\ retorno = Janela(Canonico(StrLower(StrStrip(chamada.periodo.s))))

---------------------------------------------------------------------------
(* claim about the empty result *)

\* the intent query was executed without error and returned no row
ExecutouSemLinhas ==
    /\ modo = "orquestrador"
    /\ ConsultasSubmetidas /= {}
    /\ pc /= "executando"
    /\ Falsy(resultado_bd.erro)
    /\ resultado_bd.dados = <<>>

\* C20: a query that executed without error and returned no row ends the
\* request with the nothing-found message; no error is reported and the
\* summarizer is not called.
C20_ResultadoVazioNaoEhErro ==
    ExecutouSemLinhas
        => /\ pc = "done"
           /\ ~propagou
           /\ resposta = MsgNadaEncontrado
           /\ resposta \notin {MsgErroBD, MsgErroInterno}
           /\ llm_resumo = SemResumo
           /\ ~Entrou("Summarizing")

\* C20 witness: the position of an order that does not exist was asked for
C20_Witness ==
    /\ ExecutouSemLinhas
    /\ pc = "done"
    /\ intencao = "verificar_posicao_pedido"
    /\ Get(entidades, "id_pedido") = Inteiro(98765)

---------------------------------------------------------------------------
(* claims about the conversation store *)

Menor(a, b) == IF a < b THEN a ELSE b

\* the texts of a history, in its order
Textos(mensagens) == [i \in 1..Len(mensagens) |-> mensagens[i].texto]

\* the last n elements of a list that has at least n
Ultimos(lista, n) == SubSeq(lista, Len(lista) - n + 1, Len(lista))

\* how many messages a session of cap N retains out of k recorded: min(k, N),
\* with a floor of 3 on the cap
Retidas(k, N) == Menor(k, Maior(3, N))

\* C12: after any run of adicionar_mensagem calls on a session of cap N, with k
\* messages recorded in total, the history is the last min(k, N) recorded
\* messages in arrival order (N counted as 3 when it is below 3): never more
\* than N entries when N >= 3, the oldest dropped first.
C12_HistoricoLimitado ==
    modo = "sessao"
        => \A u \in DOMAIN sessoes :
             LET N == sessoes[u].max_mensagens
                 k == Len(registradas[u])
             IN  /\ Textos(sessoes[u].mensagens) = Ultimos(registradas[u], Retidas(k, N))
                 /\ N >= 3 => Len(sessoes[u].mensagens) <= N

\* minutes since the last user message of a session
Inatividade(u) == relogio - sessoes[u].ultima_atividade

\* C13: a sweep removes exactly the sessions whose last user message is older
\* than the inactivity TTL and leaves every other session as it was; and the
\* first message of a user who has no session creates a fresh session whose
\* history holds only that message.
C13_VarreduraPorInatividade ==
    [][ /\ LimparSessoesExpiradas
            => /\ DOMAIN sessoes' = { u \in DOMAIN sessoes : Inatividade(u) <= timeout_minutos }
               /\ \A u \in DOMAIN sessoes' : sessoes'[u] = sessoes[u]
        /\ \A u \in Usuarios :
             (u \notin DOMAIN sessoes /\ u \in DOMAIN sessoes')
                 => /\ Len(registradas'[u]) = Len(registradas[u]) + 1
                    /\ Textos(sessoes'[u].mensagens)
                           = <<registradas'[u][Len(registradas'[u])]>>
                    /\ sessoes'[u].mensagens[1].resposta_bot = Nulo
                    /\ sessoes'[u].ultima_atividade = relogio
      ]_vars

\* a user wrote, the session went past the TTL and was swept, and the user's
\* next message opened a fresh session
C13_Witness ==
    /\ modo = "limpeza"
    /\ \E u \in DOMAIN sessoes :
         /\ Len(registradas[u]) >= 2
         /\ Len(sessoes[u].mensagens) = 1
         /\ sessoes[u].ultima_atividade > timeout_minutos

\* the coroutines that hold a rendered context
ComContexto == { t \in Tarefas : tarefas[t].pc \in {"consultando", "enviando"} }

\* the texts of the user turns of a rendered context, in its order
TurnosDe(contexto) ==
    LET linhas == SelectSeq(contexto, LAMBDA l : l.quem = "Usuario")
    IN  [j \in 1..Len(linhas) |-> linhas[j].texto[1]]

\* where the message of coroutine t stands among the messages recorded for its user
OrdemDe(t) ==
    CHOOSE i \in 1..Len(registradas[tarefas[t].chat_id]) :
        registradas[tarefas[t].chat_id][i] = tarefas[t].texto

C15_RespostaNoTurnoCerto ==
    \A u \in DOMAIN sessoes :
        \A n \in 1..Len(sessoes[u].mensagens) :
            LET msg == sessoes[u].mensagens[n]
            IN  msg.resposta_bot = Nulo \/ msg.resposta_bot = RespostaPara(msg.texto)

---------------------------------------------------------------------------
(* claims about the task manager *)

\* the tracked tasks that have not finished
NaoFinalizadas == { task \in gerenciador_tasks.tasks : corrotinas[task] = "rodando" }

\* C16: the tracked unfinished tasks never exceed max_tasks; adicionar_task
\* called while max_tasks tracked tasks are unfinished raises RuntimeError and
\* starts no task; and a call made while fewer are unfinished starts its task,
\* however many tracked tasks have finished.
C16_LimiteDeTasks ==
    /\ [](Cardinality(NaoFinalizadas) <= gerenciador_tasks.max_tasks)
    /\ [][ AdicionarTask
             => IF Cardinality(NaoFinalizadas) >= gerenciador_tasks.max_tasks
                THEN /\ retorno' = TaskRecusada("RuntimeError",
                                                "Limite de tasks simultaneas atingido")
                     /\ corrotinas' = corrotinas
                     /\ NaoFinalizadas' = NaoFinalizadas
                ELSE /\ retorno'.ok
                     /\ Len(corrotinas') = Len(corrotinas) + 1
                     /\ NaoFinalizadas' = NaoFinalizadas \cup {retorno'.task}
                     /\ retorno'.task \notin NaoFinalizadas
         ]_vars

\* a call was refused at the cap while an earlier task had already finished
C16_Witness ==
    /\ modo = "tasks"
    /\ retorno.exc = "RuntimeError"
    /\ gerenciador_tasks.max_tasks >= 1
    /\ Cardinality(NaoFinalizadas) = gerenciador_tasks.max_tasks
    /\ \E task \in 1..Len(corrotinas) : corrotinas[task] /= "rodando"

---------------------------------------------------------------------------
(* claims about the transport *)

\* C17: sending a reply is not retried: whatever the transport's failures and
\* timeouts, at most one sendText request carrying the reply of an inbound
\* message reaches the transport.
C17_EnvioSemRepeticao ==
    \A message_id \in 1..Len(envios) : envios[message_id] <= 1

---------------------------------------------------------------------------
(* claims about the failure paths of the pipeline *)

\* the summarizing chain failed: it raised, or its text is empty or shorter
\* than 10 characters once stripped
FalhaSumarizador(saida) ==
    \/ saida.tipo = "levanta"
    \/ /\ saida.tipo = "texto"
       /\ Comprimento(StrStrip(saida.texto.s)) < 10

\* the reply states how many rows the query returned
DeclaraContagem(r, linhas) ==
    IF Len(linhas) = 1
    THEN Len(r) >= 1 /\ r[1] = Fixo("Encontrei 1 resultado para sua consulta:\n")
    ELSE /\ Len(r) >= 3
         /\ r[1] = Fixo("Encontrei ")
         /\ r[2] = Fixo(ToString(Len(linhas)))
         /\ r[3] = Fixo(" resultados para sua consulta.\n\n")

\* C21: when the summarizer fails (its chain raises, or returns empty or
\* too-short text) on a non-empty result, the request ends with the fallback
\* rendering that states the row count, never with the internal-error text
\* and never with an exception.
C21_FalhaDoSumarizadorUsaFallback ==
    (pc = "done" /\ llm_resumo /= SemResumo /\ FalhaSumarizador(llm_resumo))
        => /\ ~propagou
           /\ resultado_bd.dados /= <<>>
           /\ resposta = _gerar_resposta_fallback(resultado_bd.dados)
           /\ DeclaraContagem(resposta, resultado_bd.dados)
           /\ resposta /= MsgErroInterno

\* the chain raised on a result of two rows and the request ended
C21_Witness ==
    /\ pc = "done"
    /\ llm_resumo.tipo = "levanta"
    /\ Len(resultado_bd.dados) = 2
    /\ DeclaraContagem(resposta, resultado_bd.dados)

\* the chain returned too-short text on a result of one row
C21_WitnessCurto ==
    /\ pc = "done"
    /\ llm_resumo.tipo = "texto"
    /\ FalhaSumarizador(llm_resumo)
    /\ Len(resultado_bd.dados) = 1

\* the classifying chain raised, or returned what the intent schema rejects
SaidaMalformada(saida) == saida.tipo = "levanta" \/ ~DictValido(saida)

\* C22: malformed classifier output (a raised exception, a dict without a tag
\* or with a tag outside the closed set) is recovered: obter_intencao returns
\* the intent "desconhecido", and the request ends with the canned help
\* message without any handler, builder or database call.
C22_SaidaMalformadaViraDesconhecido ==
    (llm_saida /= SemSaidaLLM /\ SaidaMalformada(llm_saida))
        => /\ intencao = "desconhecido"
           /\ entidades = EntidadesVazias
           /\ pc \in {"classificado", "done"}
           /\ etapas = <<"Classifying">>
           /\ ret_manip = SemRetorno
           /\ bd_chamadas = <<>>
           /\ busca_cliente = SemResultado
           /\ resultado_bd = SemResultado
           /\ llm_resumo = SemResumo
           /\ pc = "done" => (resposta = MsgDesconhecido /\ ~propagou)

\* the chain returned a tag outside the closed set and the request ended
C22_Witness ==
    /\ pc = "done"
    /\ llm_saida.tipo = "dict"
    /\ llm_saida.intencao = "cancelar_pedido"
    /\ resposta = MsgDesconhecido

\* C23: every intent that obter_intencao delivers with the tag
\* "necessita_esclarecimento" has an empty entity map and a non-empty
\* clarification message, also when the tag came from the classifying chain
\* itself.
C23_EsclarecimentoBemFormado ==
    (llm_saida /= SemSaidaLLM /\ intencao = "necessita_esclarecimento")
        => /\ entidades = EntidadesVazias
           /\ esclarecimento.t = "str"
           /\ esclarecimento.s /= <<>>

\* the two control tags of the schema
IntencoesDeControle == {"necessita_esclarecimento", "desconhecido"}

\* C24: the registry is total over the closed set of tags: every tag of the
\* schema other than the two control tags is a key of MAPEAMENTO_INTENCOES,
\* every key is a tag of the schema, and so no request ends in the branch
\* "no handler for this intent".
C24_RegistroTotal ==
    /\ TipoIntencao \ IntencoesDeControle \subseteq MAPEAMENTO_INTENCOES
    /\ MAPEAMENTO_INTENCOES \subseteq TipoIntencao \ IntencoesDeControle
    /\ llm_saida /= SemSaidaLLM
         => /\ intencao \in TipoIntencao
            /\ resposta /= MsgSemManipulador(intencao)
            /\ (pc \notin {"classificado"} /\ intencao \notin IntencoesDeControle)
                 => /\ intencao \in MAPEAMENTO_INTENCOES
                    /\ Len(etapas) >= 2
                    /\ etapas[2] = "Dispatching"
                    /\ (pc = "manipulando" \/ Len(etapas) >= 3)

\* a validated intent was dispatched and its handler ran
C24_Witness ==
    /\ llm_saida.tipo = "dict"
    /\ intencao = "listar_produtos_descontinuados"
    /\ pc = "done"
    /\ ret_manip /= SemRetorno

\* the entity that the handler of intent i requires
CampoObrigatorio(i) ==
    CASE i \in {"buscar_produtos_classificados", "buscar_clientes_classificados"} ->
           "criterio_classificacao"
      [] i = "buscar_detalhes_produto" -> "nome_produto"
      [] i = "listar_clientes_por_cidade" -> "cidade"
      [] i = "listar_produtos_por_marca" -> "marca"
      [] i = "listar_pedidos_por_posicao" -> "posicao"
      [] i = "listar_clientes_recentes" -> "periodo_tempo"
      [] OTHER -> "id_pedido"

IntencoesComCampoObrigatorio ==
    { "buscar_produtos_classificados", "buscar_clientes_classificados",
      "buscar_detalhes_produto", "listar_clientes_por_cidade", "listar_produtos_por_marca",
      "listar_pedidos_por_posicao", "listar_clientes_recentes", "obter_itens_pedido",
      "verificar_posicao_pedido", "consultar_valor_pedido", "consultar_data_entrega_pedido" }

\* the message of the ValueError that the handler of intent i raises for its
\* missing entity
MensagemDoCampo(i) ==
    CASE i = "buscar_produtos_classificados" ->
           <<Fixo("Criterio de classificacao nao especificado (ex: mais vendidos).")>>
      [] i = "buscar_clientes_classificados" ->
           <<Fixo("Criterio de classificacao para clientes nao especificado.")>>
      [] i = "buscar_detalhes_produto" -> <<Fixo("Por favor, especifique o nome do produto.")>>
      [] i = "listar_clientes_por_cidade" -> <<Fixo("Por favor, especifique a cidade.")>>
      [] i = "listar_produtos_por_marca" -> <<Fixo("Por favor, especifique a marca do produto.")>>
      [] i = "listar_pedidos_por_posicao" ->
           <<Fixo("Por favor, especifique a posicao dos pedidos (ex: 'bloqueado').")>>
      [] i = "listar_clientes_recentes" ->
           <<Fixo("Por favor, especifique um periodo de tempo especifico (ex: 'este mes', 'hoje').")>>
      [] OTHER -> <<Fixo("Por favor, informe o numero do pedido.")>>

\* the value is absent, None, the empty text or text made only of whitespace
EmBranco(v) ==
    \/ v.t \in {"absent", "none"}
    \/ v.t = "str" /\ StrStrip(v.s) = <<>>

\* C25: for every intent with a required entity, a value that is absent,
\* empty or made only of whitespace ends the request with the Validation
\* message of that field, which is not the System message, and no statement
\* is submitted to the database.
C25_CampoObrigatorioEmBranco ==
    ( /\ pc \notin {"inicio", "classificado", "manipulando"}
      /\ intencao \in IntencoesComCampoObrigatorio
      /\ EmBranco(Get(entidades, CampoObrigatorio(intencao))) )
        => /\ pc = "done"
           /\ bd_chamadas = <<>>
           /\ ret_manip = Levanta("ValueError", MensagemDoCampo(intencao))
           /\ resposta = <<Fixo("[X] ")>> \o MensagemDoCampo(intencao)
           /\ resposta /= MsgErroInterno

---------------------------------------------------------------------------
(* claims about GerenciadorContexto called directly *)

\* the session of user v, as the set of zero or one SessaoUsuario
SessaoDe(v) == { sessoes[u] : u \in DOMAIN sessoes \cap {v} }

\* every line of the context is a turn of user u or a reply to one
LinhasSaoDe(contexto, u) ==
    \A n \in 1..Len(contexto) :
        \E texto \in TextosDoUsuario(u) :
            IF contexto[n].quem = "Usuario"
            THEN /\ contexto[n].texto = <<texto>>
                 /\ \E i \in 1..Len(registradas[u]) : registradas[u][i] = texto
            ELSE contexto[n].texto = RespostaPara(texto).s \o <<"...">>

\* C26: the sessions of different users are isolated: adicionar_mensagem,
\* adicionar_resposta_bot, obter_contexto and encerrar_sessao called for one
\* user leave the session of every other user (its history, replies and
\* last-activity time, and whether it exists) unchanged, and the context
\* returned for a user holds only turns of that user.
C26_SessoesIsoladas ==
    /\ [][ \A u \in Usuarios :
             ( \/ ChamarAdicionarMensagem(u)
               \/ ChamarAdicionarRespostaBot(u)
               \/ ChamarObterContexto(u)
               \/ ChamarEncerrarSessao(u) )
                 => \A v \in Usuarios \ {u} : SessaoDe(v)' = SessaoDe(v)
         ]_vars
    /\ [](retorno.op = "obter_contexto" => LinhasSaoDe(retorno.contexto, retorno.usuario))

\* a context with a turn was returned for one user while the other user had
\* a session with a reply attached
C26_Witness ==
    /\ modo = "gerenciador"
    /\ retorno.op = "obter_contexto"
    /\ retorno.contexto /= <<>>
    /\ \E v \in DOMAIN sessoes \ {retorno.usuario} :
         /\ sessoes[v].mensagens /= <<>>
         /\ sessoes[v].mensagens[1].resposta_bot /= Nulo

\* the texts of the user turns of a context
TextosDoContexto(contexto) ==
    { contexto[n].texto : n \in { k \in 1..Len(contexto) : contexto[k].quem = "Usuario" } }

\* C27: after messages were recorded for a user with adicionar_mensagem,
\* obter_contexto for that user returns a context that is not empty and
\* holds the text of recorded messages of the user; with exactly one message
\* recorded, it holds that message.
C27_ContextoDepoisDeRegistrar ==
    \A u \in DOMAIN sessoes :
        sessoes[u].mensagens /= <<>>
            => LET contexto == obter_contexto(sessoes, u)
               IN  /\ contexto /= <<>>
                   /\ \E n \in 1..Len(sessoes[u].mensagens) :
                        <<sessoes[u].mensagens[n].texto>> \in TextosDoContexto(contexto)
                   /\ Len(sessoes[u].mensagens) = 1
                        => <<sessoes[u].mensagens[1].texto>> \in TextosDoContexto(contexto)

---------------------------------------------------------------------------
(* claims about duplicate deliveries *)

\* how many times the text of message_id was recorded in a context
VezesRegistrada(message_id) ==
    LET vezes(u) == Cardinality({ i \in 1..Len(registradas[u]) :
                                     registradas[u][i] = TextoDe(message_id) })
    IN  vezes("u1") + vezes("u2")

\* C28: each inbound message is processed only once: for a given message id,
\* across any sequence of deliveries (duplicates that arrive while the first
\* is in processing, and redeliveries after the processing has finished or
\* failed), the message is recorded in the context at most once and at most
\* one reply to it is sent.
C28_ProcessadaUmaVez ==
    \A message_id \in 1..recebidas :
        /\ VezesRegistrada(message_id) <= 1
        /\ envios[message_id] <= 1

\* C29: a session exists for a user exactly when a message of that user was
\* recorded since the session's last removal: a session that exists holds a
\* recorded message; only adicionar_mensagem creates a session, and it always
\* leaves one; obter_contexto, adicionar_resposta_bot and the statistics
\* reads neither create nor remove one; only the sweep and encerrar_sessao
\* remove one; and encerrar_sessao returns True exactly when the session
\* existed, after which it does not exist.
C29_CicloDeVidaDaSessao ==
    /\ [](\A u \in DOMAIN sessoes :
              /\ sessoes[u].total_mensagens_recebidas >= 1
              /\ sessoes[u].mensagens /= <<>>
              /\ registradas[u] /= <<>>)
    /\ [][ \A u \in Usuarios :
             /\ ChamarAdicionarMensagem(u) => u \in DOMAIN sessoes'
             /\ ( \/ ChamarObterContexto(u)
                  \/ ChamarAdicionarRespostaBot(u)
                  \/ ChamarEstatisticas(u) ) => DOMAIN sessoes' = DOMAIN sessoes
             /\ ChamarEncerrarSessao(u)
                  => /\ retorno'.booleano = (u \in DOMAIN sessoes)
                     /\ u \notin DOMAIN sessoes'
             /\ (u \notin DOMAIN sessoes /\ u \in DOMAIN sessoes')
                  => ChamarAdicionarMensagem(u)
             /\ (u \in DOMAIN sessoes /\ u \notin DOMAIN sessoes')
                  => (ChamarEncerrarSessao(u) \/ LimparSessoesExpiradas)
         ]_vars

\* encerrar_sessao returned True for a user with recorded messages, whose
\* session is gone
C29_Witness ==
    /\ modo = "gerenciador"
    /\ retorno.op = "encerrar_sessao"
    /\ retorno.booleano
    /\ retorno.usuario \notin DOMAIN sessoes
    /\ registradas[retorno.usuario] /= <<>>

---------------------------------------------------------------------------
(* claims about the text filter *)

\* the tokens of the term of the call
TokensDaChamada == StrSplit(ComoStr(chamada.termo).s)

\* the comparison of column i with the bound parameter of token j
ComparacaoDe(i, j) ==
    "LOWER(" \o chamada.campos[i] \o ") LIKE LOWER(:" \o chamada.nome_param \o "_"
        \o ToString(i - 1) \o "_" \o ToString(j - 1) \o ")"

\* the comparisons of column i for tokens j..t, joined by AND
RECURSIVE TodosOsTokens(_, _, _)
TodosOsTokens(i, j, t) ==
    IF j = t THEN ComparacaoDe(i, j)
    ELSE ComparacaoDe(i, j) \o " AND " \o TodosOsTokens(i, j + 1, t)

\* the groups of columns i..c, joined by OR
RECURSIVE AlgumaColuna(_, _, _)
AlgumaColuna(i, c, t) ==
    IF i = c THEN "(" \o TodosOsTokens(i, 1, t) \o ")"
    ELSE "(" \o TodosOsTokens(i, 1, t) \o ")" \o " OR " \o AlgumaColuna(i + 1, c, t)

\* C30: _construir_filtro_texto_flexivel, for a term of t >= 1 tokens and c
\* columns, returns exactly t*c bound parameters with pairwise distinct
\* names, each holding one token between two '%', and a predicate that asks
\* for all the tokens on a column (AND) on any of the columns (OR); the
\* predicate is made of the columns, the parameter names and the number of
\* tokens only, never of the text of a token.
C30_FiltroDeTextoFlexivel ==
    (modo = "filtro" /\ pc = "retornou" /\ Len(TokensDaChamada) >= 1)
        => LET t == Len(TokensDaChamada)
               c == Len(chamada.campos)
           IN  /\ retorno.ok
               /\ Cardinality(retorno.params) = t * c
               /\ Cardinality(Chaves(retorno.params)) = t * c
               /\ \A i \in 1..c, j \in 1..t :
                    /\ KeyParam(chamada.nome_param, i, j) \in Chaves(retorno.params)
                    /\ Valor(retorno.params, KeyParam(chamada.nome_param, i, j))
                         = Str(<<"%">> \o TokensDaChamada[j] \o <<"%">>)
               /\ retorno.sql = << "(" \o AlgumaColuna(1, c, t) \o ")" >>

\* a term of three tokens was filtered on two columns
C30_Witness ==
    /\ modo = "filtro"
    /\ pc = "retornou"
    /\ Len(TokensDaChamada) = 3
    /\ Len(chamada.campos) = 2
    /\ Cardinality(retorno.params) = 6

---------------------------------------------------------------------------
(* claims about the transport client *)

\* the attempts that ended in a transport error and were followed by a sleep
FalhasComEspera ==
    { n \in 1..Len(waha.pedidos) : waha.pedidos[n] \in ErrosHTTP /\ n < waha.max_retries }

\* C31: _fazer_request_com_retry always terminates; it makes at most
\* max_retries attempts; the first response obtained, of any status, is
\* returned and no attempt follows it; after the failed attempt n it sleeps
\* 2^n seconds before attempt n+1, and it does not sleep after the last
\* attempt; when every attempt failed with a transport error it raises the
\* last of those errors.
C31_RetryTermina ==
    /\ <>(waha.pc \in {"retornou", "levantou"})
    /\ [](/\ Len(waha.pedidos) <= waha.max_retries
          /\ \A n \in 1..(Len(waha.pedidos) - 1) : waha.pedidos[n] \in ErrosHTTP
          /\ waha.pc = "retornou"
               => /\ waha.pedidos /= <<>>
                  /\ waha.pedidos[Len(waha.pedidos)]
                       = FimDeRequest("Response", waha.status_code)
          /\ Len(waha.esperas) = Cardinality(FalhasComEspera)
          /\ \A n \in 1..Len(waha.esperas) : waha.esperas[n] = 2 ^ n
          /\ ( /\ waha.pc = "levantou"
               /\ waha.pedidos /= <<>>
               /\ \A n \in 1..Len(waha.pedidos) : waha.pedidos[n] \in ErrosHTTP )
               => /\ Len(waha.pedidos) = waha.max_retries
                  /\ waha.exc = waha.pedidos[Len(waha.pedidos)].classe)

\* three attempts out of three failed, the last with another error than the
\* first, and the call raised after sleeping 2 and 4 seconds
C31_Witness ==
    /\ modo = "retry"
    /\ waha.pc = "levantou"
    /\ waha.max_retries = 3
    /\ Len(waha.pedidos) = 3
    /\ waha.pedidos[1].classe /= waha.pedidos[3].classe
    /\ waha.exc = waha.pedidos[3].classe
    /\ waha.esperas = <<2, 4>>


---------------------------------------------------------------------------
(* claims about the session-status cache *)

\* C32: once iniciar_sessao or parar_sessao has succeeded, the next
\* verificar_sessao(usar_cache=True) performs a fresh request instead of
\* answering from the cache, and every verificar_sessao returns a status
\* dictionary, never the None left in the cache.
C32_CacheInvalidadoAposComando ==
    /\ [](retorno.op = "verificar_sessao" => retorno.valor.t = "dict")
    /\ [][(VerificarSessao(TRUE) /\ waha.invalidada) => ~retorno'.do_cache]_vars


---------------------------------------------------------------------------
(* claims about the application lifespan *)

\* a running event loop at import, a model name and a model the LLM accepts
ConfiguracaoValida ==
    /\ aplicacao.laco_rodando
    /\ aplicacao.modelo_valido
    /\ ~Falsy(Getenv(aplicacao.LLM_MODEL, Str(<<"llama3.1">>)))

\* C33: with a valid LLM configuration the lifespan start-up completes and
\* reaches the operational state with the session store's sweep task started,
\* and the lifespan never ends in an error.
C33_LifespanChegaAoOperacional ==
    /\ [](ConfiguracaoValida => aplicacao.pc /= "levantou")
    /\ ConfiguracaoValida ~>
           (aplicacao.pc = "operacional" /\ aplicacao.task_limpeza.estado /= "None")


---------------------------------------------------------------------------
(* claims about the message processor *)

UltimaMensagem(ss, usuario_id) == ss[usuario_id].mensagens[Len(ss[usuario_id].mensagens)]

\* the steps one processar_mensagem call may take, in order
PassosPermitidos ==
    { <<"livre", "digitando">>, <<"digitando", "consultando">>,
      <<"consultando", "enviando">>, <<"consultando", "livre">>,
      <<"enviando", "enviando">>, <<"enviando", "livre">> }

\* C35: every processed message is recorded in its user's session, then the
\* context is rendered, then the orchestrator's reply is recorded, then the
\* reply is sent, each once and in this order; a failed send leaves the
\* recorded reply in place; a message without text is neither recorded nor
\* answered.
C35_PassosDoProcessador ==
    /\ [](\A message_id \in 1..recebidas :
            /\ envios[message_id] > 0 => VezesRegistrada(message_id) >= 1
            /\ CorpoVazio(message_id) =>
                   envios[message_id] = 0 /\ VezesRegistrada(message_id) = 0)
    /\ [][\A t \in Tarefas :
            LET u == tarefas[t].chat_id
                m == tarefas[t].message_id
            IN  /\ tarefas'[t] /= tarefas[t] => <<tarefas[t].pc, tarefas'[t].pc>> \in PassosPermitidos
                /\ (tarefas[t].pc = "digitando" /\ tarefas'[t].pc = "consultando") =>
                       /\ u \in DOMAIN sessoes'
                       /\ UltimaMensagem(sessoes', u).texto = tarefas[t].texto
                       /\ UltimaMensagem(sessoes', u).resposta_bot = Nulo
                       /\ tarefas'[t].contexto = obter_contexto(sessoes', u)
                       /\ envios' = envios
                /\ (tarefas[t].pc = "consultando" /\ tarefas'[t].pc = "enviando") =>
                       /\ tarefas'[t].resposta = RespostaPara(tarefas[t].texto)
                       /\ UltimaMensagem(sessoes', u).resposta_bot = tarefas'[t].resposta
                       /\ envios' = envios
                /\ (tarefas[t].pc = "consultando" /\ tarefas'[t].pc = "livre") =>
                       sessoes' = sessoes /\ envios' = envios
                /\ (tarefas[t].pc = "enviando" /\ tarefas'[t] /= tarefas[t]) =>
                       /\ sessoes' = sessoes
                       /\ \A outra \in 1..Len(envios) : outra /= m => envios'[outra] = envios[outra]
        ]_vars
    /\ [][(recebidas' = recebidas + 1 /\ CorpoVazio(recebidas + 1)) =>
              sessoes' = sessoes /\ registradas' = registradas /\ tarefas' = tarefas]_vars

\* an empty message was dropped, and a reply stays recorded while its send is
\* being repeated after a failure
C35_Witness ==
    /\ recebidas = 3
    /\ \E t \in Tarefas :
         /\ tarefas[t].pc = "enviando"
         /\ tarefas[t].tentativa = 3
         /\ envios[tarefas[t].message_id] = 0
         /\ UltimaMensagem(sessoes, tarefas[t].chat_id).resposta_bot = tarefas[t].resposta


---------------------------------------------------------------------------
(* claims about the webhook *)

\* request i was acknowledged and carried a "message" event
MensagemReconhecida(i) ==
    IF i <= recebidas THEN registradas["u1"][i] = "message" ELSE FALSE

\* the event of request i reached processar_mensagem
EntregueAoProcessador(i) ==
    IF i <= Len(envios) THEN envios[i] = 1 ELSE FALSE

\* C36: the webhook answers "received" to every request, and every "message"
\* event it has acknowledged is eventually handed to processar_mensagem,
\* also when it arrives while max_tasks tasks are running.
C36_WebhookNaoPerdeMensagem ==
    /\ [](recebidas > 0 => retorno.status = "received")
    /\ \A i \in 1..MaxEventos :
           MensagemReconhecida(i) ~> EntregueAoProcessador(i)


---------------------------------------------------------------------------
(* claims about the sweep cycle *)

SessaoExpirada(usuario_id) ==
    IF usuario_id \in DOMAIN sessoes
    THEN esta_expirada(sessoes[usuario_id], relogio)
    ELSE FALSE

LimpezaParada == aplicacao.task_limpeza.estado = "cancelada"

\* C37: every sweep is followed by a sleep of 5 minutes, or of 1 minute when
\* it raised, and then by another sweep, while requests are handled; only
\* encerrar() stops the cycle; and a session that stays inactive past the
\* TTL is eventually removed unless the cycle was stopped.
C37_CicloDeLimpeza ==
    /\ [][(aplicacao.task_limpeza.estado = "pronta"
              /\ aplicacao'.task_limpeza.estado = "dormindo")
            => \/ /\ aplicacao'.task_limpeza.acorda_em = relogio + 5
                  /\ \A u \in DOMAIN sessoes' : ~esta_expirada(sessoes'[u], relogio)
               \/ /\ aplicacao'.task_limpeza.acorda_em = relogio + 1
                  /\ sessoes' = sessoes]_vars
    /\ [][(~LimpezaParada /\ LimpezaParada') => retorno'.op = "encerrar"]_vars
    /\ (aplicacao.task_limpeza.estado = "dormindo"
           /\ aplicacao.task_limpeza.acorda_em <= MaxRelogioCiclo)
          ~> (aplicacao.task_limpeza.estado = "pronta" \/ LimpezaParada)
    /\ \A u \in Usuarios : SessaoExpirada(u) ~> (~SessaoExpirada(u) \/ LimpezaParada)

\* a session was swept after its expiry, by a cycle that had raised once
C37_Witness ==
    /\ registradas["u1"] /= <<>>
    /\ "u1" \notin DOMAIN sessoes
    /\ aplicacao.falhas = 1
    /\ aplicacao.task_limpeza.estado = "dormindo"
    /\ relogio > timeout_minutos


---------------------------------------------------------------------------
(* claims about expired sessions between two sweeps *)

\* C38, as claimed: a message recorded for a user whose session is past the
\* TTL and not yet swept starts from an empty history, and the context
\* rendered for it holds no turn of the expired session.
C38_SessaoExpiradaNaoReutilizada ==
    [][\A u \in Usuarios :
          (ChamarAdicionarMensagem(u) /\ SessaoExpirada(u))
              => /\ Len(sessoes'[u].mensagens) = 1
                 /\ obter_contexto(sessoes', u) = <<>>
      ]_vars

\* C38, amended: until a sweep removes it, a session is reused whatever its
\* inactivity: the message is appended after the session's last message, the
\* session is no longer expired, and the context rendered for the message
\* holds the earlier turn; only a user without a session starts from an
\* empty history.
C38_SessaoReutilizadaAteAVarredura ==
    [][\A u \in Usuarios :
          ChamarAdicionarMensagem(u)
              => IF u \in DOMAIN sessoes
                 THEN LET antes == sessoes[u].mensagens
                          depois == sessoes'[u].mensagens
                      IN  /\ Len(depois) >= 2
                          /\ depois[Len(depois) - 1] = antes[Len(antes)]
                          /\ depois[Len(depois)].timestamp = relogio
                          /\ ~SessaoExpirada(u)'
                          /\ <<antes[Len(antes)].texto>>
                                 \in TextosDoContexto(obter_contexto(sessoes', u))
                 ELSE /\ Len(sessoes'[u].mensagens) = 1
                      /\ obter_contexto(sessoes', u) = <<>>
      ]_vars

\* a message was appended to a session that had been inactive past the TTL
C38_Witness ==
    \E u \in DOMAIN sessoes :
        /\ Len(sessoes[u].mensagens) >= 2
        /\ sessoes[u].mensagens[2].timestamp - sessoes[u].mensagens[1].timestamp
               > timeout_minutos
        /\ obter_contexto(sessoes, u) /= <<>>


\* C39: mensagens_processando holds exactly the ids of the processar_mensagem
\* calls that passed the duplicate check and have not left yet, whichever
\* way they leave; it is empty when no call is running; and no id is ever
\* processed by two calls at once, because a delivery of an id in the set is
\* refused.
C39_ConjuntoEmProcessamento ==
    /\ aplicacao.mensagens_processando = mensagens_processando
    /\ (\A t \in Tarefas : tarefas[t].pc = "livre") => aplicacao.mensagens_processando = {}
    /\ \A t \in Tarefas, outra \in Tarefas :
           (t /= outra /\ tarefas[t].pc /= "livre" /\ tarefas[outra].pc /= "livre")
               => tarefas[t].message_id /= tarefas[outra].message_id

\* a message that was processed to its end before is in flight once more,
\* after a delivery without text came and went
C39_Witness ==
    /\ recebidas >= 2
    /\ VezesRegistrada(1) = 2
    /\ aplicacao.mensagens_processando = {1}

====
